---- MODULE Spec2Model ----
(***************************************************************************)
(* AFSysBench: the GPU memory manager (src/lib/gpu_memory_manager.py) and  *)
(* the benchmark runner (src/af_bench_runner_updated.py) as state          *)
(* machines.                                                                *)
(*                                                                          *)
(*   Spec        one GPUMemoryManager object: its capacity probe and its    *)
(*               sizing decision, called any number of times.               *)
(*   SpecRunner  one run of the runner's main(): load the configuration,    *)
(*               call one run operation, which launches one external       *)
(*               process, and report.                                       *)
(*                                                                          *)
(* Further specifications, each with the other components at rest, are     *)
(* introduced where their component is: SpecThreads, SpecEstimate, SpecOom, *)
(* SpecSummary and SpecReaders.                                             *)
(*                                                                          *)
(* Conventions.  An optional value (Python's None or a value) is a sequence *)
(* of length 0 or 1.  A text in which a word is searched is the sequence of *)
(* its fragments, cut so that every occurrence of a searched word is one    *)
(* fragment of its own; concatenation is \o.                                *)
(***************************************************************************)
EXTENDS Integers, Sequences, FiniteSets, TLC

VARIABLES
    \* ---- GPUMemoryManager
    safety_tenths,      \* self.safety_factor, in tenths (12 is 1.2)
    gpu_memory_cache,   \* self._gpu_memory_cache: None or an int
    mgr_op,             \* the manager's operation in progress: "none" or its name
    mgr_pc,             \* its position: "idle", "smi", "docker", "decide"
    launched,           \* the probe commands the get_gpu_memory_mb in progress launched
    gpu_mem,            \* needs_unified_memory's local gpu_mem at "decide"
    probe_call,         \* the last finished get_gpu_memory_mb call
    sizing_call,        \* the last finished needs_unified_memory call
    \* ---- main() and AFBenchRunner
    pc,                 \* position of main()
    args,               \* the parsed command line
    environ,            \* os.environ
    config,             \* the loaded BenchmarkConfig: None or a record
    scripts_dir,        \* AFBenchRunner.scripts_dir
    cmd,                \* the argument list handed to subprocess.run
    cmd_env,            \* the environment handed to subprocess.run: None or a map
    timeout_seconds,    \* the timeout handed to subprocess.run
    proc,               \* the external process: "none", "running", "exited", "killed"
    returncode,         \* its exit code, once exited
    launches,           \* how many times subprocess.run started a process
    result,             \* what the run operation returned: None or a record
    exc,                \* the exception that left the run operation: None or its name
    exit_code,          \* main()'s exit status: None while running
    printed,            \* the lines main() printed
    \* ---- get_gpu_memory_mb called from several threads on one manager
    th_pc,              \* each thread's position in get_gpu_memory_mb: idle, cached, smi,
                        \* smi running, docker, docker running or stored
    th_launched,        \* the probe commands each thread's call in progress launched
    th_after,           \* did each thread's call start after a successful call returned
    th_call,            \* each thread's last finished call
    reported,           \* the capacities the probe commands have reported so far
    succeeded,          \* has a call that probed a capacity returned
    \* ---- estimate_memory_requirement and check_oom_error, called directly
    estimate_call,      \* the last finished estimate_memory_requirement call
    estimate_prev,      \* the one before it
    oom_call,           \* the last finished check_oom_error call
    oom_prev,           \* the one before it
    \* ---- the statistical summary and its two readers
    csv_rows,           \* the rows of statistical_summary.csv
    agg_pc,             \* the summary is being written ("writing") or is "closed"
    stats,              \* what analyze_statistical_data.calculate_statistics(df) returned
    csv_results,        \* what track_progress.parse_csv_results(stats_dir) returned
    status_lines,       \* what track_progress.print_status printed per configuration
    \* ---- a run-record CSV file and its three readers
    csv_lines,          \* the lines of the file, each the list of its fields
    rd_pc,              \* the file is being written ("writing") or is "closed"
    master_results,     \* what AFBenchRunner.get_master_results returned
    loaded_df,          \* what analyze_statistical_data.load_data returned
    parsed_results      \* what track_progress.parse_csv_results returned

mgr_vars == <<safety_tenths, gpu_memory_cache, mgr_op, mgr_pc, launched, gpu_mem,
              probe_call, sizing_call>>
run_vars == <<pc, args, environ, config, scripts_dir, cmd, cmd_env, timeout_seconds, proc,
              returncode, launches, result, exc, exit_code, printed>>
thr_vars == <<th_pc, th_launched, th_after, th_call, reported, succeeded>>
fun_vars == <<estimate_call, estimate_prev, oom_call, oom_prev>>
agg_vars == <<csv_rows, agg_pc, stats, csv_results, status_lines>>
rd_vars == <<csv_lines, rd_pc, master_results, loaded_df, parsed_results>>
ext_vars == <<thr_vars, fun_vars, agg_vars, rd_vars>>
vars == <<mgr_vars, run_vars, ext_vars>>

None == <<>>
Some(x) == <<x>>

(***************************************************************************)
(* Bounds of the model.                                                     *)
(***************************************************************************)
\* the longest probe output, in lines
MaxLines == 2
\* estimates 0..MaxRequired MB come from the file-size heuristic
MaxRequired == 12
\* capacities 0..MaxCapacity MB are reported by the probes (and 16000)
MaxCapacity == 5

(***************************************************************************)
(* GPUMemoryManager                                                         *)
(***************************************************************************)

\* MEMORY_REQUIREMENTS, keyed by the file stem (its dot-separated parts
\* without the last suffix).
MEMORY_REQUIREMENTS ==
    ( <<"6QNR_subset_data">>   :> 24000 ) @@
    ( <<"promo_data">>         :> 8000 ) @@
    ( <<"promo_data_seed1">>   :> 8000 ) @@
    ( <<"2pv7_data">>          :> 4000 ) @@
    ( <<"1yy9_data">>          :> 6000 ) @@
    ( <<"rcsb_pdb_7rce_data">> :> 6000 )

\* Path(input_file).stem: the last path component without its last suffix.
\* `name` is the component's dot-separated parts.  pathlib keeps the whole
\* name when its last dot is its last character ('promo_data.') or its
\* first ('.json').
Stem(name) ==
    IF /\ Len(name) > 1
       /\ name[Len(name)] # ""
       /\ ~(Len(name) = 2 /\ name[1] = "")
    THEN SubSeq(name, 1, Len(name) - 1)
    ELSE name

\* One line of a probe's standard output.
Blank == [kind |-> "blank", val |-> 0]
Other == [kind |-> "other", val |-> 0]
Digits(n) == [kind |-> "digits", val |-> n]

\* str.strip() on the whole output: leading and trailing blank lines (and
\* the whitespace around the rest) go.
RECURSIVE StripLeft(_)
StripLeft(lines) ==
    IF lines # <<>> /\ Head(lines).kind = "blank" THEN StripLeft(Tail(lines)) ELSE lines

RECURSIVE StripRight(_)
StripRight(lines) ==
    IF lines # <<>> /\ lines[Len(lines)].kind = "blank"
    THEN StripRight(SubSeq(lines, 1, Len(lines) - 1))
    ELSE lines

Strip(lines) == StripRight(StripLeft(lines))

\* stdout.strip().split('\n')[0]: the first line of the stripped output, the
\* empty string when nothing is left.
FirstLine(stdout) == IF Strip(stdout) = <<>> THEN Blank ELSE Head(Strip(stdout))

\* int(text): None stands for ValueError.
ParseInt(line) == IF line.kind = "digits" THEN Some(line.val) ELSE None

\* One subprocess.run of a probe command (lines 38-44 and 50-58): what the
\* try block leaves.  "value": the capacity parsed and cached; "next": fall
\* through to what follows the try; "raise": an exception the except clause
\* does not name leaves get_gpu_memory_mb.
TryProbe(out) ==
    IF out.kind = "oserror" THEN [step |-> "raise", val |-> 0]
    ELSE IF out.kind = "suberror" THEN [step |-> "next", val |-> 0]
    ELSE IF out.returncode # 0 THEN [step |-> "next", val |-> 0]
    ELSE IF ParseInt(FirstLine(out.stdout)) = None THEN [step |-> "next", val |-> 0]
    ELSE [step |-> "value", val |-> ParseInt(FirstLine(out.stdout))[1]]

\* Mutants of estimate_memory_requirement: the size heuristic before the
\* table, and the heuristic rounded to the nearest integer.
EstimateSizeFirstMutant(name, size) ==
    IF size # None THEN (size[1] * 1000) \div (1024 * 1024)
    ELSE IF Stem(name) \in DOMAIN MEMORY_REQUIREMENTS THEN MEMORY_REQUIREMENTS[Stem(name)]
    ELSE 8000

EstimateRoundedMutant(name, size) ==
    IF Stem(name) \in DOMAIN MEMORY_REQUIREMENTS
    THEN MEMORY_REQUIREMENTS[Stem(name)]
    ELSE IF size = None THEN 8000
    ELSE (size[1] * 1000 + 512 * 1024) \div (1024 * 1024)

\* estimate_memory_requirement.  size is os.path.getsize(input_file) in
\* bytes, None when it raises OSError.  size / (1024 * 1024) * 1000 is exact
\* in double precision for every size below 2^43, so int() of it is the
\* floor of the rational.
estimate_memory_requirement(name, size) ==
    IF Stem(name) \in DOMAIN MEMORY_REQUIREMENTS
    THEN MEMORY_REQUIREMENTS[Stem(name)]
    ELSE IF size = None THEN 8000
    ELSE (size[1] * 1000) \div (1024 * 1024)

\* int(required_mem * self.safety_factor), line 88.  For the safety factors
\* of SafetyFactors the double product truncates to the floor of the exact
\* product (checked against Python for every required_mem below 200000).
RequiredWithSafetyRoundMutant(required_mem, tenths) ==
    (2 * required_mem * tenths + 10) \div 20

RequiredWithSafetyNoFactorMutant(required_mem, tenths) == required_mem

RequiredWithSafety(required_mem, tenths) == (required_mem * tenths) \div 10

\* lines 97-112: the decision.
NeedsUnifiedExactMutant(mem, required_mem, tenths) ==
    IF mem = 0 THEN FALSE ELSE required_mem * tenths > 10 * mem

NeedsUnified(mem, required_mem, tenths) ==
    IF mem = 0 THEN FALSE ELSE RequiredWithSafety(required_mem, tenths) > mem

\* needs_unified_memory, lines 87-112, with gpu_mem as line 86 left it.
needs_unified_memory(mem, name, size, tenths) ==
    LET required_mem == estimate_memory_requirement(name, size) IN
    [needs_unified |-> NeedsUnified(mem, required_mem, tenths),
     info |-> [gpu_memory_mb |-> mem,
               required_memory_mb |-> required_mem,
               required_with_safety_mb |-> RequiredWithSafety(required_mem, tenths),
               safety_factor |-> tenths]]

\* get_unified_memory_env
get_unified_memory_env ==
    ( "XLA_PYTHON_CLIENT_PREALLOCATE" :> "false" ) @@
    ( "TF_FORCE_UNIFIED_MEMORY"       :> "true" ) @@
    ( "XLA_CLIENT_MEM_FRACTION"       :> "3.2" )

\* check_oom_error's oom_patterns, each searched as a plain substring.
oom_patterns ==
    { "CUDA_ERROR_OUT_OF_MEMORY", "CUDA out of memory", "OOM when allocating tensor",
      "ResourceExhaustedError", "failed to allocate.*memory",
      "GPU memory allocation failed" }

\* `pattern in content` for some pattern, on a text given by its fragments.
ContainsOom(content) == \E i \in 1..Len(content) : content[i] \in oom_patterns

(***************************************************************************)
(* Inputs of the manager.                                                   *)
(***************************************************************************)
\* safety_factor 1.0, 1.2 (the default) and 1.5
SafetyFactors == {10, 12, 15}

Capacities == (0..MaxCapacity) \cup {16000}

ProbeLines == {Blank, Other} \cup { Digits(c) : c \in Capacities }

RECURSIVE SeqsUpTo(_, _)
SeqsUpTo(S, n) ==
    IF n = 0 THEN { <<>> }
    ELSE LET shorter == SeqsUpTo(S, n - 1) IN
         shorter \cup { Append(s, x) : s \in { t \in shorter : Len(t) = n - 1 }, x \in S }

ProbeStdouts == SeqsUpTo(ProbeLines, MaxLines)

\* What a probe command can do: the program is missing or cannot be started
\* (FileNotFoundError, PermissionError: OSError), subprocess.run raises a
\* SubprocessError, or the command completes.  A failed command's output is
\* not read.
ProbeOutcomes ==
    { [kind |-> "oserror", returncode |-> 0, stdout |-> <<>>],
      [kind |-> "suberror", returncode |-> 0, stdout |-> <<>>] }
    \cup { [kind |-> "completed", returncode |-> 0, stdout |-> s] : s \in ProbeStdouts }
    \cup { [kind |-> "completed", returncode |-> 1, stdout |-> s] :
             s \in { <<>>, <<Digits(16000)>> } }

\* Input files: names of the table and names that are not in it, with the
\* size the file has on disk (None: it cannot be stat'ed).  A file of
\* 1049 * k bytes is estimated at k MB.
InputNames ==
    { <<"promo_data", "json">>, <<"6QNR_subset_data", "json">>, <<"sample", "json">>,
      <<"promo_data", "v2", "json">> }

FileSizes == { None } \cup { Some(1049 * k) : k \in 0..MaxRequired }

NoCall == [outcome |-> "none"]

\* The threads that call get_gpu_memory_mb on the one manager.
Threads == { "t1", "t2" }

(***************************************************************************)
(* The parts of the program a specification leaves at rest.                 *)
(***************************************************************************)
ThreadsAtRest ==
    /\ th_pc = [t \in Threads |-> "idle"]
    /\ th_launched = [t \in Threads |-> <<>>]
    /\ th_after = [t \in Threads |-> FALSE]
    /\ th_call = [t \in Threads |-> NoCall]
    /\ reported = {}
    /\ succeeded = FALSE

FunctionsAtRest ==
    /\ estimate_call = NoCall
    /\ estimate_prev = NoCall
    /\ oom_call = NoCall
    /\ oom_prev = NoCall

SummaryAtRest ==
    /\ csv_rows = <<>>
    /\ agg_pc = "off"
    /\ stats = NoCall
    /\ csv_results = NoCall
    /\ status_lines = NoCall

ReadersAtRest ==
    /\ csv_lines = <<>>
    /\ rd_pc = "off"
    /\ master_results = NoCall
    /\ loaded_df = NoCall
    /\ parsed_results = NoCall

ExtAtRest == ThreadsAtRest /\ FunctionsAtRest /\ SummaryAtRest /\ ReadersAtRest

RunnerAtRest ==
    /\ pc = "off"
    /\ args = None
    /\ environ = None
    /\ config = None
    /\ scripts_dir = <<>>
    /\ cmd = <<>>
    /\ cmd_env = None
    /\ timeout_seconds = 0
    /\ proc = "none"
    /\ returncode = 0
    /\ launches = 0
    /\ result = None
    /\ exc = None
    /\ exit_code = None
    /\ printed = <<>>

(***************************************************************************)
(* The manager's operations.  get_gpu_memory_mb blocks in subprocess.run    *)
(* twice; each of the two commands is a step of its own.                    *)
(***************************************************************************)
\* GPUMemoryManager(safety_factor), lines 26-29
InitManager ==
    /\ safety_tenths \in SafetyFactors
    /\ gpu_memory_cache = None
    /\ mgr_op = "none"
    /\ mgr_pc = "idle"
    /\ launched = <<>>
    /\ gpu_mem = 0
    /\ probe_call = NoCall
    /\ sizing_call = NoCall

\* get_gpu_memory_mb returns val; source names where the value came from:
\* "cache", "nvidia-smi", "docker", or "none" (line 63).  Its caller goes on:
\* a direct call is finished, needs_unified_memory has its gpu_mem (line 86).
ProbeReturns(val, source, commands) ==
    /\ probe_call' = [outcome |-> "return", ret |-> val, source |-> source,
                      launched |-> commands]
    /\ launched' = <<>>
    /\ IF mgr_op = "needs_unified_memory"
       THEN /\ mgr_pc' = "decide"
            /\ gpu_mem' = val
            /\ UNCHANGED <<mgr_op, sizing_call>>
       ELSE /\ mgr_pc' = "idle"
            /\ mgr_op' = "none"
            /\ UNCHANGED <<gpu_mem, sizing_call>>

\* An exception leaves get_gpu_memory_mb, and needs_unified_memory when that
\* is the caller (line 86 is in no try block).
ProbeRaises(commands) ==
    /\ probe_call' = [outcome |-> "raise", ret |-> 0, source |-> "none",
                      launched |-> commands]
    /\ launched' = <<>>
    /\ sizing_call' = IF mgr_op = "needs_unified_memory"
                      THEN [outcome |-> "raise"] ELSE sizing_call
    /\ mgr_pc' = "idle"
    /\ mgr_op' = "none"
    /\ UNCHANGED gpu_mem

\* get_gpu_memory_mb, lines 33-34: the cached value, or on to the probes.
\* `op` is the operation that starts: get_gpu_memory_mb called directly, or
\* needs_unified_memory calling it at line 86.
EnterProbe(op) ==
    /\ mgr_pc = "idle"
    /\ IF gpu_memory_cache # None
       THEN /\ probe_call' = [outcome |-> "return", ret |-> gpu_memory_cache[1],
                              source |-> "cache", launched |-> <<>>]
            /\ IF op = "needs_unified_memory"
               THEN /\ mgr_op' = op
                    /\ mgr_pc' = "decide"
                    /\ gpu_mem' = gpu_memory_cache[1]
               ELSE UNCHANGED <<mgr_op, mgr_pc, gpu_mem>>
       ELSE /\ mgr_op' = op
            /\ mgr_pc' = "smi"
            /\ UNCHANGED <<probe_call, gpu_mem>>
    /\ UNCHANGED <<safety_tenths, gpu_memory_cache, launched, sizing_call, run_vars, ext_vars>>

CallGetGpuMemoryMb == EnterProbe("get_gpu_memory_mb")

CallNeedsUnifiedMemory == EnterProbe("needs_unified_memory")

ProbeSmiThenDockerMutant ==
    /\ mgr_pc = "smi"
    /\ \E out \in ProbeOutcomes :
          LET try == TryProbe(out)
              commands == Append(launched, "nvidia-smi") IN
          IF try.step = "raise"
          THEN /\ ProbeRaises(commands)
               /\ UNCHANGED gpu_memory_cache
          ELSE /\ gpu_memory_cache' = IF try.step = "value" THEN Some(try.val)
                                      ELSE gpu_memory_cache
               /\ mgr_pc' = "docker"
               /\ launched' = commands
               /\ UNCHANGED <<mgr_op, gpu_mem, probe_call, sizing_call>>
    /\ UNCHANGED <<safety_tenths, run_vars, ext_vars>>

\* lines 36-46: the direct query
ProbeSmi ==
    /\ mgr_pc = "smi"
    /\ \E out \in ProbeOutcomes :
          LET try == TryProbe(out)
              commands == Append(launched, "nvidia-smi") IN
          IF try.step = "value"
          THEN /\ gpu_memory_cache' = Some(try.val)
               /\ ProbeReturns(try.val, "nvidia-smi", commands)
          ELSE IF try.step = "raise"
          THEN /\ ProbeRaises(commands)
               /\ UNCHANGED gpu_memory_cache
          ELSE /\ mgr_pc' = "docker"
               /\ launched' = commands
               /\ UNCHANGED <<gpu_memory_cache, mgr_op, gpu_mem, probe_call, sizing_call>>
    /\ UNCHANGED <<safety_tenths, run_vars, ext_vars>>

\* lines 48-63: the containerized query, then the warning and 0
ProbeDocker ==
    /\ mgr_pc = "docker"
    /\ \E out \in ProbeOutcomes :
          LET try == TryProbe(out)
              commands == Append(launched, "docker") IN
          IF try.step = "value"
          THEN /\ gpu_memory_cache' = Some(try.val)
               /\ ProbeReturns(try.val, "docker", commands)
          ELSE IF try.step = "raise"
          THEN /\ ProbeRaises(commands)
               /\ UNCHANGED gpu_memory_cache
          ELSE /\ ProbeReturns(0, "none", commands)
               /\ UNCHANGED gpu_memory_cache
    /\ UNCHANGED <<safety_tenths, run_vars, ext_vars>>

\* needs_unified_memory, lines 87-112: the estimate and the decision.
NeedsUnifiedMemoryDecide ==
    /\ mgr_pc = "decide"
    /\ \E name \in InputNames, size \in FileSizes :
          LET r == needs_unified_memory(gpu_mem, name, size, safety_tenths) IN
          sizing_call' = [outcome |-> "return", needs_unified |-> r.needs_unified,
                          info |-> r.info]
    /\ mgr_pc' = "idle"
    /\ mgr_op' = "none"
    /\ gpu_mem' = 0
    /\ UNCHANGED <<safety_tenths, gpu_memory_cache, launched, probe_call, run_vars, ext_vars>>

Init == InitManager /\ RunnerAtRest /\ ExtAtRest

Next ==
    \/ CallGetGpuMemoryMb
    \/ CallNeedsUnifiedMemory
    \/ ProbeSmi
    \/ ProbeDocker
    \/ NeedsUnifiedMemoryDecide

Spec == Init /\ [][Next]_vars

(***************************************************************************)
(* Properties of the sizing decision and of the capacity probe.             *)
(***************************************************************************)
Decided == sizing_call.outcome = "return"

\* C1, as claimed: the decision is true exactly when a capacity was detected
\* and the exact product required_mb x safety_factor exceeds it.
C1_ExactProductDecides ==
    Decided =>
        LET i == sizing_call.info IN
        sizing_call.needs_unified <=>
            ( /\ i.gpu_memory_mb > 0
              /\ i.required_memory_mb * i.safety_factor > 10 * i.gpu_memory_mb )

\* C1, amended: the decision is true exactly when a capacity was detected and
\* the product truncated to an integer exceeds it, that is when the exact
\* product is at least capacity_mb + 1; it is false when the capacity is 0.
C1_TruncatedProductDecides ==
    Decided =>
        LET i == sizing_call.info IN
        /\ sizing_call.needs_unified <=>
              ( /\ i.gpu_memory_mb > 0
                /\ i.required_memory_mb * i.safety_factor >= 10 * (i.gpu_memory_mb + 1) )
        /\ i.gpu_memory_mb = 0 => ~sizing_call.needs_unified

\* C1's case: a detected capacity that the exact product exceeds by less
\* than 1 MB, decided.
C1_Witness ==
    /\ Decided
    /\ sizing_call.info.gpu_memory_mb > 0
    /\ sizing_call.info.required_memory_mb * sizing_call.info.safety_factor
          > 10 * sizing_call.info.gpu_memory_mb
    /\ ~sizing_call.needs_unified

\* C2, as claimed: required_with_safety_mb is the product rounded to a
\* nearest integer, for every required_mb > 0.
C2_RoundedToNearest ==
    (Decided /\ sizing_call.info.required_memory_mb > 0) =>
        LET i == sizing_call.info
            d == 10 * i.required_with_safety_mb - i.required_memory_mb * i.safety_factor
        IN  -5 <= d /\ d <= 5

\* C2, amended: required_with_safety_mb is the product truncated to an
\* integer: the largest integer not above required_mb x safety_factor.
C2_Truncated ==
    Decided =>
        LET i == sizing_call.info IN
        /\ 10 * i.required_with_safety_mb <= i.required_memory_mb * i.safety_factor
        /\ i.required_memory_mb * i.safety_factor < 10 * (i.required_with_safety_mb + 1)

\* C2's case: a product whose fraction is above one half, in a returned profile.
C2_Witness ==
    /\ Decided
    /\ sizing_call.info.required_memory_mb > 0
    /\ (sizing_call.info.required_memory_mb * sizing_call.info.safety_factor) % 10 > 5

\* C3: with safety factor 1.2 and a capacity of 16000 MB, an estimate of
\* 8000 MB gives 9600 and no fallback, an estimate of 24000 MB gives 28800
\* and fallback.
C3_Scenarios ==
    (Decided /\ sizing_call.info.safety_factor = 12
             /\ sizing_call.info.gpu_memory_mb = 16000) =>
        /\ sizing_call.info.required_memory_mb = 8000 =>
              ( /\ sizing_call.info.required_with_safety_mb = 9600
                /\ ~sizing_call.needs_unified )
        /\ sizing_call.info.required_memory_mb = 24000 =>
              ( /\ sizing_call.info.required_with_safety_mb = 28800
                /\ sizing_call.needs_unified )

\* C3's case: the second scenario, decided.
C3_Witness ==
    /\ Decided
    /\ sizing_call.info.safety_factor = 12
    /\ sizing_call.info.gpu_memory_mb = 16000
    /\ sizing_call.info.required_memory_mb = 24000
    /\ sizing_call.needs_unified

\* C10, as claimed: no call of the probe raises; each returns an integer
\* >= 0, and 0 when neither command yielded a capacity; so no sizing decision
\* is left by an exception.
C10_ProbeNeverRaises ==
    /\ probe_call.outcome # "raise"
    /\ sizing_call.outcome # "raise"
    /\ probe_call.outcome = "return" =>
          ( /\ probe_call.ret >= 0
            /\ probe_call.source = "none" => probe_call.ret = 0 )

\* A call of the probe has finished in this step.
ProbeCallEnds == probe_call' # probe_call

\* C11, as claimed: once a probe command has yielded a capacity, the cache
\* keeps it and every later call returns it without launching a command; a
\* call in which both commands fail returns 0 and leaves the cache unset, and
\* the call after it probes again.
C11_CachedAfterSuccess ==
    /\ [][ gpu_memory_cache # None =>
              /\ gpu_memory_cache' = gpu_memory_cache
              /\ launched' = <<>>
              /\ ProbeCallEnds =>
                    /\ probe_call'.outcome = "return"
                    /\ probe_call'.ret = gpu_memory_cache[1]
                    /\ probe_call'.launched = <<>> ]_vars
    /\ [][ (ProbeCallEnds /\ probe_call'.source \in {"nvidia-smi", "docker"}) =>
              gpu_memory_cache' = Some(probe_call'.ret) ]_vars
    /\ [][ (mgr_pc = "docker" /\ ProbeCallEnds /\ probe_call'.source = "none") =>
              /\ probe_call'.outcome = "return"
              /\ probe_call'.ret = 0
              /\ gpu_memory_cache' = None ]_vars
    /\ [][ (mgr_pc = "idle" /\ gpu_memory_cache = None /\ mgr_pc' # "idle") =>
              mgr_pc' = "smi" ]_vars

\* A call of the probe has returned (or raised) in this state.
ProbeEnded == probe_call.outcome \in {"return", "raise"}

\* The direct query is launched first, the containerized one only after it
\* and only when the direct one left no capacity; a capacity of the direct
\* query is returned with the containerized query never launched.
DirectFirst ==
    /\ launched \in { <<>>, <<"nvidia-smi">> }
    /\ ProbeEnded =>
          probe_call.launched \in { <<>>, <<"nvidia-smi">>, <<"nvidia-smi", "docker">> }
    /\ (ProbeEnded /\ probe_call.source = "nvidia-smi") =>
          probe_call.launched = <<"nvidia-smi">>
    /\ (ProbeEnded /\ probe_call.source = "docker") =>
          probe_call.launched = <<"nvidia-smi", "docker">>
    /\ mgr_pc = "docker" => (launched = <<"nvidia-smi">> /\ gpu_memory_cache = None)

\* C23, as claimed: the direct query first, the containerized query only
\* when the direct one yielded no capacity, and 0 returned only after both
\* have been tried and have failed.
C23_ZeroOnlyAfterBoth ==
    /\ DirectFirst
    /\ (probe_call.outcome = "return" /\ probe_call.ret = 0) =>
          (probe_call.source = "none" /\ probe_call.launched = <<"nvidia-smi", "docker">>)

\* C23, amended: the direct query first, the containerized query only when
\* the direct one yielded no capacity; the answer 0 for "no capacity
\* detected" comes only after both have been tried and have failed, and any
\* other 0 is a capacity of 0 that a query printed, in this call or in the
\* call that cached it.
C23_DirectFirstZeroAsPrinted ==
    /\ DirectFirst
    /\ (ProbeEnded /\ probe_call.source = "none" /\ probe_call.outcome = "return") =>
          (probe_call.ret = 0 /\ probe_call.launched = <<"nvidia-smi", "docker">>)
    /\ (probe_call.outcome = "return" /\ probe_call.ret = 0 /\ probe_call.source # "none") =>
          gpu_memory_cache = Some(0)

\* C23's case: the direct query printed a capacity of 0, which is returned
\* with the containerized query never launched.
C23_Witness ==
    /\ probe_call.outcome = "return"
    /\ probe_call.source = "nvidia-smi"
    /\ probe_call.ret = 0
    /\ probe_call.launched = <<"nvidia-smi">>

(***************************************************************************)
(* BenchmarkConfig                                                          *)
(***************************************************************************)
\* the most lines a configuration file has
MaxConfigLines == 2

\* The dataclass defaults, lines 27-59.  Of the settings only those that a
\* run operation reads or that from_file converts are kept; the others are
\* strings and booleans stored as they are.
DefaultConfig ==
    [thread_counts |-> <<4, 8, 16>>, profiling_mode |-> FALSE, profiling_tool |-> "",
     run_purpose |-> "performance", docker_cpus |-> None, num_models |-> 5,
     config_file |-> None]

\* int(text) on the texts that occur: None stands for ValueError.
IntOfText(text) ==
    CASE text = "4" -> Some(4)
      [] text = "5" -> Some(5)
      [] text = "8" -> Some(8)
      [] text = "16" -> Some(16)
      [] OTHER -> None

\* str(n) on the thread counts and model counts that occur.
StrOfInt(n) ==
    CASE n = 4 -> "4"
      [] n = 5 -> "5"
      [] n = 8 -> "8"
      [] n = 16 -> "16"
      [] OTHER -> "0"

\* [int(x.strip()) for x in value.split()], line 104
RECURSIVE IntsOfWords(_)
IntsOfWords(words) ==
    IF words = <<>> THEN Some(<<>>)
    ELSE LET head == IntOfText(Head(words))
             rest == IntsOfWords(Tail(words)) IN
         IF head = None \/ rest = None THEN None ELSE Some(<<head[1]>> \o rest[1])

\* One `key=value` line of the file after lines 72-79 cleaned it: the key,
\* the value and the value's whitespace-separated words.  Lines 82-123: the
\* configuration with the setting stored, None when int() raises ValueError.
ApplyConfigLine(cfg, line) ==
    IF line.key = "THREAD_COUNTS"
    THEN IF IntsOfWords(line.words) = None THEN None
         ELSE Some([cfg EXCEPT !.thread_counts = IntsOfWords(line.words)[1]])
    ELSE IF line.key = "PROFILING_TOOL"
    THEN IF line.value # ""
         THEN Some([cfg EXCEPT !.profiling_tool = line.value, !.profiling_mode = TRUE,
                               !.run_purpose = "profiling"])
         ELSE Some(cfg)
    ELSE IF line.key = "DOCKER_CPUS"
    THEN IF line.value = "" THEN Some([cfg EXCEPT !.docker_cpus = None])
         ELSE IF IntOfText(line.value) = None THEN None
         ELSE Some([cfg EXCEPT !.docker_cpus = IntOfText(line.value)])
    ELSE IF line.key = "NUM_MODELS"
    THEN IF IntOfText(line.value) = None THEN None
         ELSE Some([cfg EXCEPT !.num_models = IntOfText(line.value)[1]])
    ELSE Some(cfg)

RECURSIVE ApplyConfigLines(_, _)
ApplyConfigLines(cfg, lines) ==
    IF lines = <<>> THEN Some(cfg)
    ELSE LET next == ApplyConfigLine(cfg, Head(lines)) IN
         IF next = None THEN None ELSE ApplyConfigLines(next[1], Tail(lines))

FromFileMissingDefaultsMutant(file) ==
    IF file = None THEN Some(DefaultConfig) ELSE ApplyConfigLines(DefaultConfig, file[1])

\* BenchmarkConfig.from_file: `file` is None when the path does not exist,
\* else the file's lines.  None: an exception (FileNotFoundError, ValueError).
from_file(file) ==
    IF file = None THEN None ELSE ApplyConfigLines(DefaultConfig, file[1])

ConfigLines ==
    { [key |-> "PROFILING_TOOL", value |-> "perf_stat", words |-> <<"perf_stat">>],
      [key |-> "PROFILING_TOOL", value |-> "", words |-> <<>>],
      [key |-> "THREAD_COUNTS", value |-> "4 8", words |-> <<"4", "8">>],
      [key |-> "THREAD_COUNTS", value |-> "four", words |-> <<"four">>],
      [key |-> "DOCKER_CPUS", value |-> "many", words |-> <<"many">>],
      [key |-> "DOCKER_CPUS", value |-> "", words |-> <<>>],
      [key |-> "NUM_MODELS", value |-> "", words |-> <<>>] }

ConfigFiles == { None } \cup { Some(f) : f \in SeqsUpTo(ConfigLines, MaxConfigLines) }

(***************************************************************************)
(* AFBenchRunner                                                            *)
(***************************************************************************)
\* `word in text`, on a text given by its fragments
Contains(text, word) == \E i \in 1..Len(text) : text[i] = word

\* text.startswith(prefix)
StartsWith(text, prefix) ==
    Len(text) >= Len(prefix) /\ SubSeq(text, 1, Len(prefix)) = prefix

\* os.path.isabs: the paths that occur are absolute when they start here
IsAbs(path) == path # <<>> /\ Head(path) \in { "/data/", "/opt/afsysbench" }

\* os.path.join(dir, name)
JoinPath(dir, name) == dir \o <<"/">> \o name

\* " ".join(map(str, thread_counts))
RECURSIVE JoinInts(_)
JoinInts(ints) ==
    IF ints = <<>> THEN <<>>
    ELSE IF Len(ints) = 1 THEN <<StrOfInt(ints[1])>>
    ELSE <<StrOfInt(ints[1]), " ">> \o JoinInts(Tail(ints))

\* os.path.dirname(os.path.abspath(__file__))
base_dir == <<"/opt/afsysbench">>

\* _get_script_path's script_mapping, lines 159-162
script_mapping ==
    ( <<"benchmark_msa.sh">> :> <<"benchmark_msa_modular.sh">> ) @@
    ( <<"benchmark_", "inference", ".sh">> :> <<"benchmark_", "inference", "_modular.sh">> )

\* _get_script_path: `present` are the paths that exist.  None stands for
\* FileNotFoundError.
get_script_path(script_name, sdir, present) ==
    IF script_name \in DOMAIN script_mapping
       /\ JoinPath(sdir, script_mapping[script_name]) \in present
    THEN Some(JoinPath(sdir, script_mapping[script_name]))
    ELSE IF JoinPath(sdir, script_name) \in present
    THEN Some(JoinPath(sdir, script_name))
    ELSE IF JoinPath(base_dir, script_name) \in present
    THEN Some(JoinPath(base_dir, script_name))
    ELSE None

\* The paths _get_script_path looks at.
ScriptCandidates(script_name, sdir) ==
    { JoinPath(sdir, script_name), JoinPath(base_dir, script_name) }
    \cup IF script_name \in DOMAIN script_mapping
         THEN { JoinPath(sdir, script_mapping[script_name]) } ELSE {}

\* The script each run operation asks for.
ScriptOf(command) ==
    CASE command = "msa" -> <<"benchmark_msa.sh">>
      [] command = "inference" -> <<"benchmark_", "inference", ".sh">>
      [] command = "batch" -> <<"batch_runner.sh">>
      [] command = "profile" -> <<"profiling_runner.sh">>
      [] command = "collect" -> <<"result_collector.sh">>

input_msa == <<"input_msa/">>
input_inference == <<"input_", "inference", "/">>

\* cmd.extend(["-t", ...]) and the like: the option when it is given
OptInts(flag, ints) == IF ints # <<>> THEN << <<flag>>, JoinInts(ints) >> ELSE <<>>
OptText(flag, text) == IF text # None THEN << <<flag>>, text[1] >> ELSE <<>>

\* self.config.__dict__.get('config_file', 'myenv.config')
ConfigFileOf(cfg) == IF cfg.config_file = None THEN <<"myenv.config">> ELSE cfg.config_file[1]

\* run_msa_benchmark, lines 226-245: the argument list
MsaCmd(a, script, cfg) ==
    LET full_input_path ==
            IF ~StartsWith(a.input, input_msa) /\ ~IsAbs(a.input)
            THEN input_msa \o a.input ELSE a.input IN
    <<script, <<"-c">>, ConfigFileOf(cfg)>> \o OptInts("-t", a.threads)
        \o OptText("-o", a.output) \o <<full_input_path>>

\* run_inference_benchmark, lines 268-295
InferenceCmd(a, script, cfg) ==
    LET full_input_path ==
            IF ~StartsWith(a.input, input_inference) /\ ~IsAbs(a.input)
            THEN input_inference \o a.input ELSE a.input IN
    <<script, <<"-c">>, ConfigFileOf(cfg)>> \o OptInts("-t", a.threads)
        \o (IF a.nsys THEN << <<"-n">> >> ELSE <<>>)
        \o OptInts("-m", a.models)
        \o OptText("-o", a.output) \o <<full_input_path>>

\* run_batch, lines 318-331
BatchCmd(a, script, cfg) ==
    <<script, <<"-c">>, ConfigFileOf(cfg), <<"-i">>, a.input, <<"-s">>, <<a.stage>>>>
        \o OptInts("-t", a.threads) \o OptText("-n", a.name)

\* run_profiling, lines 353-380
ProfilingCmd(a, script, cfg) ==
    LET full_input_path ==
            IF IsAbs(a.input) THEN a.input
            ELSE IF a.stage = "msa" /\ ~StartsWith(a.input, input_msa)
            THEN input_msa \o a.input
            ELSE IF a.stage = "inference" /\ ~StartsWith(a.input, input_inference)
            THEN input_inference \o a.input
            ELSE a.input IN
    <<script, <<"-c">>, ConfigFileOf(cfg), <<"-p">>, <<a.tool>>, <<"-s">>, <<a.stage>>>>
        \o OptInts("-t", a.threads) \o OptText("-o", a.output) \o <<full_input_path>>

\* collect_results, lines 404-408
CollectCmd(a, script) ==
    <<script, <<"-i">>, a.input, <<"-t">>, <<a.type>>, <<"-f">>, <<a.format>>>>

BuildCmd(a, script, cfg) ==
    CASE a.command = "msa" -> MsaCmd(a, script, cfg)
      [] a.command = "inference" -> InferenceCmd(a, script, cfg)
      [] a.command = "batch" -> BatchCmd(a, script, cfg)
      [] a.command = "profile" -> ProfilingCmd(a, script, cfg)
      [] a.command = "collect" -> CollectCmd(a, script)

\* dict.update
UpdateEnv(env, overrides) ==
    [k \in DOMAIN env \cup DOMAIN overrides |->
        IF k \in DOMAIN overrides THEN overrides[k] ELSE env[k]]

\* _run_command, lines 188-196: the environment of the process.  `env` is
\* the caller's env argument, None when it gives none.
CommandEnv(ambient, env, cfg) ==
    LET merged == IF env # None THEN UpdateEnv(ambient, env[1]) ELSE ambient IN
    IF cfg.profiling_mode
    THEN UpdateEnv(merged, ( "PROFILING_ENABLED" :> "true" ) @@
                           ( "PROFILING_TOOL" :> cfg.profiling_tool ))
    ELSE merged

\* _run_command, lines 198-201: the timeout
CommandTimeout(command) ==
    IF \E i \in 1..Len(command) : Contains(command[i], "inference") THEN 7200 ELSE 3600

\* The record a run operation returns (lines 252-260, 302-310, 338-346,
\* 387-396, 415-424); its wall-clock 'duration' is left out.
RecordExtras(a, cfg) ==
    CASE a.command \in {"msa", "inference"} -> ( "run_purpose" :> cfg.run_purpose )
      [] a.command = "batch" -> ( "stage" :> a.stage )
      [] a.command = "profile" -> ( "stage" :> a.stage ) @@ ( "profiling_tool" :> a.tool )
      [] a.command = "collect" -> ( "result_type" :> a.type ) @@ ( "format" :> a.format )

RunRecordKeepsOutputMutant(a, command, rc, out, err, cfg) ==
    [input |-> a.input, command |-> command, success |-> rc = 0,
     stdout |-> Some(out), stderr |-> Some(err)] @@ RecordExtras(a, cfg)

RunRecord(a, command, rc, out, err, cfg) ==
    [input |-> a.input, command |-> command, success |-> rc = 0,
     stdout |-> IF rc = 0 THEN Some(out) ELSE None,
     stderr |-> IF rc # 0 THEN Some(err) ELSE None] @@ RecordExtras(a, cfg)

\* max_retry_attempts of MEMORY_CONFIG_TEMPLATE
max_retry_attempts == 2

(***************************************************************************)
(* Inputs of main().                                                        *)
(***************************************************************************)
NoArgs ==
    [command |-> "", config |-> None, input |-> <<>>, stage |-> "", threads |-> <<>>,
     output |-> None, nsys |-> FALSE, models |-> <<>>, name |-> None, tool |-> "",
     type |-> "", format |-> ""]

InputFiles ==
    { <<"sample.json">>, <<"inference", "_case.json">>, <<"/data/", "sample.json">>,
      <<"input_msa/", "sample.json">>, <<"input_", "inference", "/", "sample.json">> }

InputDirs == { <<"results">>, <<"output_", "inference">> }

Stages == {"msa", "inference"}

\* -t, -o (and --nsys, -m; -n for a batch) given or not
PlainOptions == [threads |-> <<>>, output |-> None, nsys |-> FALSE, models |-> <<>>,
                 name |-> None]
ThreadOptions == [threads |-> <<4, 8>>, output |-> None, nsys |-> FALSE, models |-> <<>>,
                  name |-> None]
FullOptions == [threads |-> <<4, 8>>, output |-> Some(<<"output_", "inference">>),
                nsys |-> TRUE, models |-> <<5>>, name |-> Some(<<"nightly">>)]

WithOptions(a, o) ==
    [a EXCEPT !.threads = o.threads, !.output = o.output, !.nsys = o.nsys,
              !.models = o.models, !.name = o.name]

CommandLines ==
    { NoArgs }
    \cup { WithOptions([NoArgs EXCEPT !.command = "msa", !.input = f],
                       [o EXCEPT !.nsys = FALSE, !.models = <<>>, !.name = None]) :
             f \in InputFiles, o \in {PlainOptions, ThreadOptions, FullOptions} }
    \cup { WithOptions([NoArgs EXCEPT !.command = "inference", !.input = f],
                       [o EXCEPT !.name = None]) :
             f \in InputFiles, o \in {PlainOptions, FullOptions} }
    \cup { WithOptions([NoArgs EXCEPT !.command = "batch", !.input = d, !.stage = st],
                       [o EXCEPT !.output = None, !.nsys = FALSE, !.models = <<>>]) :
             d \in InputDirs, st \in Stages, o \in {PlainOptions, FullOptions} }
    \cup { WithOptions([NoArgs EXCEPT !.command = "profile", !.input = f, !.stage = st,
                                      !.tool = "perf_stat"],
                       [o EXCEPT !.threads = IF o.threads = <<>> THEN <<>> ELSE <<4>>,
                                 !.nsys = FALSE, !.models = <<>>, !.name = None]) :
             f \in InputFiles, st \in Stages, o \in {PlainOptions, FullOptions} }
    \cup { [NoArgs EXCEPT !.command = "collect", !.input = d, !.type = "all",
                          !.format = "csv"] : d \in InputDirs }

ConfigPaths == { None, Some(<<"myenv.config">>), Some(<<"inference", ".config">>) }

Environs ==
    { ( "PATH" :> "/usr/bin" ),
      ( "PATH" :> "/usr/bin" ) @@ ( "XLA_PYTHON_CLIENT_PREALLOCATE" :> "true" )
          @@ ( "PROFILING_ENABLED" :> "false" ) }

\* What the external process writes: its standard output and standard error.
Stdouts == { <<>>, <<"ok">> }
Stderrs == { <<>>, <<"Traceback">>, <<"E: ", "CUDA out of memory", " (tried 2 GiB)">> }

(***************************************************************************)
(* The manager at rest, for the specification of the runner.                *)
(***************************************************************************)
ManagerAtRest ==
    /\ safety_tenths = 12
    /\ gpu_memory_cache = None
    /\ mgr_op = "none"
    /\ mgr_pc = "idle"
    /\ launched = <<>>
    /\ gpu_mem = 0
    /\ probe_call = NoCall
    /\ sizing_call = NoCall

(***************************************************************************)
(* main(): one command.                                                     *)
(***************************************************************************)
\* the process starts with its command line parsed (line 543)
InitRunner ==
    /\ pc = "start"
    /\ \E a \in CommandLines, c \in ConfigPaths : args = Some([a EXCEPT !.config = c])
    /\ environ \in Environs
    /\ config = None
    /\ scripts_dir = <<>>
    /\ cmd = <<>>
    /\ cmd_env = None
    /\ timeout_seconds = 0
    /\ proc = "none"
    /\ returncode = 0
    /\ launches = 0
    /\ result = None
    /\ exc = None
    /\ exit_code = None
    /\ printed = <<>>

\* sys.exit(1) after printing `line`
ExitWithError(line) ==
    /\ printed' = Append(printed, line)
    /\ exit_code' = Some(1)
    /\ pc' = "done"

\* main, lines 545-601: no command; no -c; the configuration loaded (or
\* not) and the runner constructed (lines 131-140).
MainSetup ==
    /\ pc = "start"
    /\ IF args[1].command = ""
       THEN /\ ExitWithError(<<"usage">>)
            /\ UNCHANGED <<config, scripts_dir>>
       ELSE IF args[1].config = None
       THEN /\ ExitWithError(<<"Error: Configuration file (-c/--config) is required">>)
            /\ UNCHANGED <<config, scripts_dir>>
       ELSE \E file \in ConfigFiles, scripts_exists \in BOOLEAN :
               IF from_file(file) = None
               THEN /\ ExitWithError(<<"Error loading config">>)
                    /\ UNCHANGED <<config, scripts_dir>>
               ELSE /\ config' = Some([from_file(file)[1] EXCEPT
                                          !.config_file = args[1].config])
                    /\ scripts_dir' = IF scripts_exists
                                      THEN JoinPath(base_dir, <<"scripts">>)
                                      ELSE base_dir
                    /\ pc' = "ready"
                    /\ UNCHANGED <<printed, exit_code>>
    /\ UNCHANGED <<args, environ, cmd, cmd_env, timeout_seconds, proc, returncode,
                   launches, result, exc, mgr_vars, ext_vars>>

\* A run operation up to the start of the process: the script resolved, the
\* argument list built (lines 226-245 and the like), then _run_command's
\* environment and timeout and subprocess.run starting the process (lines
\* 188-211).  The operations call _run_command(cmd): no env argument.  An
\* exception (the script is missing; the process cannot be started) leaves
\* the operation.
StartRun ==
    /\ pc = "ready"
    /\ LET a == args[1]
           cfg == config[1] IN
       \E present \in SUBSET ScriptCandidates(ScriptOf(a.command), scripts_dir),
          startable \in BOOLEAN :
          LET script == get_script_path(ScriptOf(a.command), scripts_dir, present) IN
          IF script = None
          THEN /\ exc' = Some("FileNotFoundError")
               /\ pc' = "raised"
               /\ UNCHANGED <<cmd, cmd_env, timeout_seconds, proc, launches>>
          ELSE /\ cmd' = BuildCmd(a, script[1], cfg)
               /\ cmd_env' = Some(CommandEnv(environ, None, cfg))
               /\ timeout_seconds' = CommandTimeout(cmd')
               /\ IF startable
                  THEN /\ proc' = "running"
                       /\ launches' = launches + 1
                       /\ pc' = "waiting"
                       /\ UNCHANGED exc
                  ELSE /\ exc' = Some("OSError")
                       /\ pc' = "raised"
                       /\ UNCHANGED <<proc, launches>>
    /\ UNCHANGED <<args, environ, config, scripts_dir, returncode, result, exit_code,
                   printed, mgr_vars, ext_vars>>

\* The process ends within the timeout: subprocess.run returns, _run_command
\* logs and returns (lines 213-219), the run operation returns its record.
ProcessExits ==
    /\ pc = "waiting"
    /\ proc = "running"
    /\ \E rc \in {0, 1}, out \in Stdouts, err \in Stderrs :
          /\ returncode' = rc
          /\ result' = Some(RunRecord(args[1], cmd, rc, out, err, config[1]))
    /\ proc' = "exited"
    /\ pc' = "returned"
    /\ UNCHANGED <<args, environ, config, scripts_dir, cmd, cmd_env, timeout_seconds,
                   launches, exc, exit_code, printed, mgr_vars, ext_vars>>

ProcessTimesOutNoKillMutant ==
    /\ pc = "waiting"
    /\ proc = "running"
    /\ exc' = Some("TimeoutExpired")
    /\ pc' = "raised"
    /\ UNCHANGED <<args, environ, config, scripts_dir, cmd, cmd_env, timeout_seconds,
                   proc, returncode, launches, result, exit_code, printed, mgr_vars,
                   ext_vars>>

\* The timeout expires first: subprocess.run kills the process, waits for it
\* and raises TimeoutExpired, which neither _run_command (lines 203-211) nor
\* the run operation catches.
ProcessTimesOut ==
    /\ pc = "waiting"
    /\ proc = "running"
    /\ proc' = "killed"
    /\ exc' = Some("TimeoutExpired")
    /\ pc' = "raised"
    /\ UNCHANGED <<args, environ, config, scripts_dir, cmd, cmd_env, timeout_seconds,
                   returncode, launches, result, exit_code, printed, mgr_vars, ext_vars>>

\* main, lines 612-617 and the like: the outcome printed; main returns.
MainReportsRetryMutant ==
    /\ pc = "returned"
    /\ IF result[1].success
       THEN /\ printed' = Append(printed, <<"completed", args[1].command>>)
            /\ pc' = "done"
            /\ exit_code' = Some(0)
       ELSE /\ printed' = Append(printed, <<"failed", args[1].command>>)
            /\ pc' = IF launches < max_retry_attempts THEN "ready" ELSE "done"
            /\ exit_code' = IF launches < max_retry_attempts THEN None ELSE Some(0)
    /\ UNCHANGED <<args, environ, config, scripts_dir, cmd, cmd_env, timeout_seconds,
                   proc, returncode, launches, result, exc, mgr_vars, ext_vars>>

MainReports ==
    /\ pc = "returned"
    /\ printed' =
          IF result[1].success
          THEN Append(printed, <<"completed", args[1].command>>)
          ELSE IF result[1].stderr # None /\ result[1].stderr[1] # <<>>
          THEN printed \o << <<"failed", args[1].command>>, <<"Error: ">> \o result[1].stderr[1] >>
          ELSE Append(printed, <<"failed", args[1].command>>)
    /\ exit_code' = Some(0)
    /\ pc' = "done"
    /\ UNCHANGED <<args, environ, config, scripts_dir, cmd, cmd_env, timeout_seconds,
                   proc, returncode, launches, result, exc, mgr_vars, ext_vars>>

\* main, lines 708-713: an exception of the run operation is printed and
\* the program exits with status 1.
MainExcept ==
    /\ pc = "raised"
    /\ printed' = Append(printed, <<"Error: ", exc[1]>>)
    /\ exit_code' = Some(1)
    /\ pc' = "done"
    /\ UNCHANGED <<args, environ, config, scripts_dir, cmd, cmd_env, timeout_seconds,
                   proc, returncode, launches, result, exc, mgr_vars, ext_vars>>

InitRun == InitRunner /\ ManagerAtRest /\ ExtAtRest

NextRun ==
    \/ MainSetup
    \/ StartRun
    \/ ProcessExits
    \/ ProcessTimesOut
    \/ MainReports
    \/ MainExcept

SpecRunner == InitRun /\ [][NextRun]_vars

(***************************************************************************)
(* Properties of the runner.                                                *)
(***************************************************************************)
Returned == result # None

FailedWithOom ==
    /\ Returned
    /\ ~result[1].success
    /\ result[1].stderr # None
    /\ ContainsOom(result[1].stderr[1])

\* The process was given the three overrides of the fallback memory mode.
InFallbackMode ==
    /\ cmd_env # None
    /\ \A k \in DOMAIN get_unified_memory_env :
          k \in DOMAIN cmd_env[1] /\ cmd_env[1][k] = get_unified_memory_env[k]

\* The job is an inference-stage job.
InferenceStage ==
    \/ args[1].command = "inference"
    \/ args[1].command \in {"batch", "profile"} /\ args[1].stage = "inference"

\* C4, as claimed: when the process exceeds its timeout (and is killed), the
\* run operation hands its caller a result record and no exception.
C4_TimeoutReturnsRecord ==
    proc = "killed" => (exc = None /\ Returned)

\* C5, as claimed: the timeout of an invocation is 7200 s exactly when the
\* job is an inference-stage job, and 3600 s otherwise.
C5_TimeoutByStageAlone ==
    proc # "none" =>
        /\ timeout_seconds \in {3600, 7200}
        /\ timeout_seconds = 7200 <=> InferenceStage

\* C6: in every returned record, success is true exactly when the exit code
\* is 0, stdout is populated only on success, stderr only on failure, and
\* never both.
C6_RecordFollowsExitCode ==
    Returned =>
        /\ result[1].success <=> returncode = 0
        /\ result[1].stdout # None => result[1].success
        /\ result[1].stderr # None => ~result[1].success
        /\ ~(result[1].stdout # None /\ result[1].stderr # None)

\* C6's case: a process that exited with a non-zero code, its record returned.
C6_Witness ==
    /\ Returned
    /\ proc = "exited"
    /\ returncode # 0
    /\ result[1].stderr # None

\* C7, as claimed: a run that failed with an OOM signature in its stderr,
\* outside the fallback mode and with fewer than max_retry_attempts attempts
\* made, is invoked again before main is done; and the attempts never exceed
\* max_retry_attempts.
C7_OomFailureIsRetried ==
    /\ launches <= max_retry_attempts
    /\ (pc = "done" /\ FailedWithOom /\ ~InFallbackMode) => launches >= max_retry_attempts

\* A call of a run operation has ended: it returned its record, or an
\* exception left it.
CallEnded == result # None \/ exc # None

\* C8, as claimed: each call of a run operation launches the process exactly
\* once; after a failure without an OOM signature main is done with that
\* single invocation, the failure printed.
C8_ExactlyOncePerCall ==
    /\ launches <= 1
    /\ CallEnded => launches = 1
    /\ (pc = "done" /\ Returned /\ ~result[1].success /\ ~FailedWithOom) =>
          ( /\ launches = 1
            /\ \E i \in 1..Len(printed) : printed[i] = <<"failed", args[1].command>> )

\* C8, amended: a process is started at most once per call of a run
\* operation and exactly once for every call that returns a record; a call
\* that ends without a process is one whose script could not be resolved
\* (FileNotFoundError) or started (OSError), and it returns no record; after
\* a failure without an OOM signature main is done with that single
\* invocation, the failure printed.
C8_SingleInvocation ==
    /\ launches <= 1
    /\ Returned => launches = 1
    /\ (CallEnded /\ launches = 0) =>
          /\ ~Returned
          /\ exc \in { Some("FileNotFoundError"), Some("OSError") }
    /\ (pc = "done" /\ Returned /\ ~result[1].success /\ ~FailedWithOom) =>
          ( /\ launches = 1
            /\ \E i \in 1..Len(printed) : printed[i] = <<"failed", args[1].command>> )

\* C8's case: main done after a failure that is not OOM-classified.
C8_Witness ==
    /\ pc = "done"
    /\ Returned
    /\ ~result[1].success
    /\ ~FailedWithOom
    /\ launches = 1

\* C9, as claimed: the environment of the process is the ambient one, or the
\* ambient one with exactly the three fallback overrides; no other variable
\* is added or changed.
C9_OnlyFallbackOverrides ==
    cmd_env # None =>
        \/ cmd_env[1] = environ
        \/ cmd_env[1] = UpdateEnv(environ, get_unified_memory_env)

\* A numeric setting whose text int() does not convert: a word of
\* THREAD_COUNTS, a non-empty DOCKER_CPUS, NUM_MODELS.
Numerals == { "4", "5", "8", "16" }

MalformedLine(line) ==
    \/ line.key = "THREAD_COUNTS" /\ \E i \in 1..Len(line.words) : line.words[i] \notin Numerals
    \/ line.key = "DOCKER_CPUS" /\ line.value # "" /\ line.value \notin Numerals
    \/ line.key = "NUM_MODELS" /\ line.value \notin Numerals

\* The configuration file is missing or has a malformed numeric setting.
CannotBeLoaded(file) ==
    file = None \/ \E i \in 1..Len(file[1]) : MalformedLine(file[1][i])

\* C21: a run command without -c, or whose configuration file is missing or
\* has a malformed THREAD_COUNTS, DOCKER_CPUS or NUM_MODELS, ends with exit
\* status 1 and no process started; a process is only ever started with a
\* loaded configuration.
C21_NoRunWithoutConfig ==
    /\ pc = "start" =>
          \A file \in ConfigFiles : CannotBeLoaded(file) => from_file(file) = None
    /\ (pc # "start" /\ config = None) =>
          /\ pc = "done"
          /\ exit_code = Some(1)
          /\ launches = 0
          /\ proc = "none"
          /\ cmd = <<>>
    /\ (launches > 0 \/ proc # "none" \/ pc \in {"ready", "waiting", "returned", "raised"}) =>
          config # None

\* C21's case: a run command with -c whose configuration was not loaded.
C21_Witness ==
    /\ pc = "done"
    /\ args[1].command # ""
    /\ args[1].config # None
    /\ config = None
    /\ exit_code = Some(1)
    /\ launches = 0

\* C22: once the timeout of an invocation has expired, the runner is left
\* (by return or by exception) only with the process terminated: control is
\* never outside the run operation while the process runs.
C22_TimedOutProcessTerminated ==
    /\ exc = Some("TimeoutExpired") => proc = "killed"
    /\ pc \in {"returned", "raised", "done"} => proc # "running"

\* C22's case: the timeout expired and TimeoutExpired left the runner.
C22_Witness ==
    /\ pc = "raised"
    /\ exc = Some("TimeoutExpired")
    /\ proc = "killed"
    /\ launches = 1

(***************************************************************************)
(* get_gpu_memory_mb called from several threads on one manager.  The      *)
(* interpreter switches threads between bytecodes and while a thread      *)
(* waits in subprocess.run: reading the cache (line 33), returning it      *)
(* (line 34), launching a command (lines 38, 50), the command's end with   *)
(* the parsed capacity stored (lines 42-43, 56-57) and returning the       *)
(* attribute just stored (lines 44, 58) are steps of their own.  The       *)
(* manager is not locked.                                                   *)
(***************************************************************************)
InitThreads ==
    /\ ManagerAtRest
    /\ RunnerAtRest
    /\ ThreadsAtRest
    /\ FunctionsAtRest
    /\ SummaryAtRest
    /\ ReadersAtRest

\* The record of the call of thread t that finishes now.
ThreadCallEnds(t, outcome, val, source, commands) ==
    /\ th_call' = [th_call EXCEPT ![t] =
                     [outcome |-> outcome, ret |-> val, source |-> source,
                      launched |-> commands, after |-> th_after[t]]]
    /\ th_pc' = [th_pc EXCEPT ![t] = "idle"]
    /\ th_launched' = [th_launched EXCEPT ![t] = <<>>]

\* line 33: `if self._gpu_memory_cache is not None`
ThreadCalls(t) ==
    /\ th_pc[t] = "idle"
    /\ th_pc' = [th_pc EXCEPT ![t] = IF gpu_memory_cache # None THEN "cached" ELSE "smi"]
    /\ th_after' = [th_after EXCEPT ![t] = succeeded]
    /\ UNCHANGED <<th_launched, th_call, reported, succeeded, mgr_vars, run_vars, rd_vars,
                   fun_vars, agg_vars>>

\* line 34: `return self._gpu_memory_cache`
ThreadReturnsCached(t) ==
    /\ th_pc[t] = "cached"
    /\ ThreadCallEnds(t, "return", gpu_memory_cache[1], "cache", <<>>)
    /\ UNCHANGED <<th_after, reported, succeeded, mgr_vars, run_vars, rd_vars, fun_vars, agg_vars>>

\* subprocess.run starts a probe command of thread t (lines 38 and 50) and
\* waits for it; a program that is missing or cannot be started raises
\* OSError at once, which leaves get_gpu_memory_mb.
ThreadLaunch(t, at, command, running) ==
    /\ th_pc[t] = at
    /\ \E startable \in BOOLEAN :
          IF startable
          THEN /\ th_pc' = [th_pc EXCEPT ![t] = running]
               /\ th_launched' = [th_launched EXCEPT ![t] = Append(@, command)]
               /\ UNCHANGED th_call
          ELSE ThreadCallEnds(t, "raise", 0, "none", Append(th_launched[t], command))
    /\ UNCHANGED <<th_after, reported, succeeded, mgr_vars, run_vars, rd_vars, fun_vars,
                   agg_vars>>

ThreadLaunchSmi(t) == ThreadLaunch(t, "smi", "nvidia-smi", "smi running")

ThreadLaunchDocker(t) == ThreadLaunch(t, "docker", "docker", "docker running")

\* The launched command of thread t ends, lines 42-43 and 56-57, and what
\* follows when it yields no capacity: `next` is the docker query after
\* nvidia-smi, the warning and `return 0` (lines 62-63) after docker.
ThreadProbe(t, at, next) ==
    /\ th_pc[t] = at
    /\ \E out \in { o \in ProbeOutcomes : o.kind # "oserror" } :
          LET try == TryProbe(out) IN
          IF try.step = "value"
          THEN /\ gpu_memory_cache' = Some(try.val)
               /\ reported' = reported \cup {try.val}
               /\ th_pc' = [th_pc EXCEPT ![t] = "stored"]
               /\ UNCHANGED <<th_launched, th_call>>
          ELSE IF next = "return"
          THEN /\ ThreadCallEnds(t, "return", 0, "none", th_launched[t])
               /\ UNCHANGED <<gpu_memory_cache, reported>>
          ELSE /\ th_pc' = [th_pc EXCEPT ![t] = next]
               /\ UNCHANGED <<gpu_memory_cache, reported, th_launched, th_call>>
    /\ UNCHANGED <<th_after, succeeded, safety_tenths, mgr_op, mgr_pc, launched, gpu_mem,
                   probe_call, sizing_call, run_vars, rd_vars, fun_vars, agg_vars>>

\* lines 42-46
ThreadProbeSmi(t) == ThreadProbe(t, "smi running", "docker")

\* lines 56-63
ThreadProbeDocker(t) == ThreadProbe(t, "docker running", "return")

\* lines 44 and 58: `return self._gpu_memory_cache`, the attribute as it is now
ThreadReturnsProbed(t) ==
    /\ th_pc[t] = "stored"
    /\ ThreadCallEnds(t, "return", gpu_memory_cache[1],
                      th_launched[t][Len(th_launched[t])], th_launched[t])
    /\ succeeded' = TRUE
    /\ UNCHANGED <<th_after, reported, mgr_vars, run_vars, rd_vars, fun_vars, agg_vars>>

NextThreads ==
    \/ \E t \in Threads : ThreadCalls(t)
    \/ \E t \in Threads : ThreadReturnsCached(t)
    \/ \E t \in Threads : ThreadLaunchSmi(t)
    \/ \E t \in Threads : ThreadProbeSmi(t)
    \/ \E t \in Threads : ThreadLaunchDocker(t)
    \/ \E t \in Threads : ThreadProbeDocker(t)
    \/ \E t \in Threads : ThreadReturnsProbed(t)

SpecThreads == InitThreads /\ [][NextThreads]_vars

\* C12, as claimed: under every interleaving each call returns, and what it
\* returns is a capacity some probe command reported, or 0 when its own two
\* commands failed; the cache is unset or holds a reported capacity; a call
\* that starts after a call that probed a capacity has returned returns a
\* cached capacity and launches no command.
C12_ConcurrentProbeSafe ==
    /\ \A t \in Threads :
          /\ th_call[t].outcome # "raise"
          /\ th_call[t].outcome = "return" =>
                /\ th_call[t].source = "none" => th_call[t].ret = 0
                /\ th_call[t].source # "none" => th_call[t].ret \in reported
                /\ th_call[t].after =>
                      /\ th_call[t].source = "cache"
                      /\ th_call[t].launched = <<>>
    /\ gpu_memory_cache # None => gpu_memory_cache[1] \in reported

(***************************************************************************)
(* estimate_memory_requirement called directly, on files of any directory. *)
(***************************************************************************)
\* the estimates 0..MaxEstimate MB are met at their smallest file size and
\* one byte below it
MaxEstimate == 3

\* The smallest file size estimated at k MB: the least size with
\* size * 1000 >= k * 1024 * 1024.
SmallestSizeFor(k) == (k * 1024 * 1024 + 999) \div 1000

\* The directory part of input_file: Path(input_file).stem drops it.
EstimateDirs == { "", "/data/" }

\* Besides the input names: a key of the table as it is, with a trailing
\* dot ('promo_data.') and a name that is a dot and a suffix ('.json').
EstimateNames == InputNames \cup { <<"promo_data">>, <<"promo_data", "">>, <<"", "json">> }

\* os.path.getsize(input_file): None when it raises OSError (no such file, no
\* permission).
EstimateSizes ==
    { None } \cup { Some(SmallestSizeFor(k)) : k \in 0..MaxEstimate }
             \cup { Some(SmallestSizeFor(k) - 1) : k \in 1..MaxEstimate }
             \cup { Some(1048576), Some(2097151) }

InitEstimate ==
    /\ ManagerAtRest
    /\ RunnerAtRest
    /\ ThreadsAtRest
    /\ FunctionsAtRest
    /\ SummaryAtRest
    /\ ReadersAtRest

\* estimate_memory_requirement(input_file), lines 65-79
CallEstimateMemoryRequirement ==
    /\ \E dir \in EstimateDirs, name \in EstimateNames, size \in EstimateSizes :
          estimate_call' = [outcome |-> "return", dir |-> dir, name |-> name,
                            size |-> size,
                            ret |-> estimate_memory_requirement(name, size)]
    /\ estimate_prev' = estimate_call
    /\ UNCHANGED <<oom_call, oom_prev, mgr_vars, run_vars, rd_vars, thr_vars, agg_vars>>

NextEstimate == CallEstimateMemoryRequirement

SpecEstimate == InitEstimate /\ [][NextEstimate]_vars

\* The file name is a key of the table, or a key with one (non-empty)
\* suffix.
KnownInput(call) ==
    /\ call.outcome = "return"
    /\ \E key \in DOMAIN MEMORY_REQUIREMENTS :
          \/ call.name = key
          \/ Len(call.name) = 2 /\ call.name[1] = key[1] /\ call.name[2] # ""

UnknownInput(call) == call.outcome = "return" /\ ~KnownInput(call)

\* C13: an input whose file stem is a key of MEMORY_REQUIREMENTS is estimated
\* at the table's value, whatever its directory and its size, and whether or
\* not it can be stat'ed.
C13_KnownInputExact ==
    KnownInput(estimate_call) =>
        estimate_call.ret = MEMORY_REQUIREMENTS[<<estimate_call.name[1]>>]

\* C13's case: the same known file estimated twice, once in a directory where
\* it has a size and once where it cannot be stat'ed.
C13_Witness ==
    /\ KnownInput(estimate_call)
    /\ KnownInput(estimate_prev)
    /\ estimate_call.name = estimate_prev.name
    /\ estimate_call.dir # estimate_prev.dir
    /\ estimate_call.size = None
    /\ estimate_prev.size # None
    /\ estimate_call.ret = estimate_prev.ret

\* C14: an input that is not in the table is estimated at
\* floor(size / (1024 * 1024) * 1000), which never decreases when the size
\* grows, and at 8000 when the file cannot be stat'ed; no call raises.
C14_SizeHeuristic ==
    /\ estimate_call.outcome \in {"none", "return"}
    /\ UnknownInput(estimate_call) =>
          /\ estimate_call.size = None => estimate_call.ret = 8000
          /\ estimate_call.size # None =>
                /\ estimate_call.ret * (1024 * 1024) <= estimate_call.size[1] * 1000
                /\ estimate_call.size[1] * 1000 < (estimate_call.ret + 1) * (1024 * 1024)
                /\ (UnknownInput(estimate_prev) /\ estimate_prev.size # None
                      /\ estimate_prev.size[1] <= estimate_call.size[1]) =>
                      estimate_prev.ret <= estimate_call.ret

\* C14's case: a file one byte short of the next megabyte of estimate, then
\* one byte larger, then a file that cannot be stat'ed.
C14_Witness ==
    /\ UnknownInput(estimate_call)
    /\ UnknownInput(estimate_prev)
    /\ estimate_prev.size # None
    /\ estimate_call.size # None
    /\ estimate_call.size[1] = estimate_prev.size[1] + 1
    /\ estimate_call.ret = estimate_prev.ret + 1

(***************************************************************************)
(* check_oom_error called directly on a log file.                          *)
(***************************************************************************)
\* the most fragments a log has
MaxFragments == 3

\* Fragments of a log: a prefix, two of the signatures, and a message the
\* pattern 'failed to allocate.*memory' would match as a regular expression
\* but does not contain.
LogFragments ==
    { "E: ", "CUDA out of memory", "ResourceExhaustedError",
      "failed to allocate 2GB memory" }

\* What `open(log_file, 'r')` and `f.read()` (lines 134-135) can do: raise an
\* OSError (no such file, no permission, a directory), raise
\* UnicodeDecodeError (the bytes are not text in the locale's encoding), or
\* give the content.
LogFiles ==
    { [kind |-> "oserror", content |-> <<>>], [kind |-> "decodeerror", content |-> <<>>] }
    \cup { [kind |-> "text", content |-> c] : c \in SeqsUpTo(LogFragments, MaxFragments) }

\* check_oom_error(log_file), lines 122-142.  `except IOError` catches the
\* OSError; UnicodeDecodeError is a ValueError and leaves the method.
check_oom_error(log) ==
    IF log.kind = "decodeerror" THEN [outcome |-> "raise", ret |-> FALSE]
    ELSE IF log.kind = "oserror" THEN [outcome |-> "return", ret |-> FALSE]
    ELSE [outcome |-> "return", ret |-> ContainsOom(log.content)]

InitOom ==
    /\ ManagerAtRest
    /\ RunnerAtRest
    /\ ThreadsAtRest
    /\ FunctionsAtRest
    /\ SummaryAtRest
    /\ ReadersAtRest

CallCheckOomError ==
    /\ \E log \in LogFiles :
          LET r == check_oom_error(log) IN
          oom_call' = [outcome |-> r.outcome, log |-> log, ret |-> r.ret]
    /\ oom_prev' = oom_call
    /\ UNCHANGED <<estimate_call, estimate_prev, mgr_vars, run_vars, rd_vars, thr_vars, agg_vars>>

NextOom == CallCheckOomError

SpecOom == InitOom /\ [][NextOom]_vars

\* The text without its occurrences of a word.
Without(content, word) == SelectSeq(content, LAMBDA f : f # word)

\* Some fragment of the text is the word; some fragment is a signature.
HasFragment(content, word) == \E i \in 1..Len(content) : content[i] = word

HasSignature(content) == \E p \in oom_patterns : HasFragment(content, p)

\* Two consecutive calls: on a text with "CUDA out of memory", then on the
\* same text without it, in which no other signature is present.
RemovalScenario ==
    /\ oom_prev.outcome = "return"
    /\ oom_call.outcome = "return"
    /\ oom_prev.log.kind = "text"
    /\ oom_call.log.kind = "text"
    /\ HasFragment(oom_prev.log.content, "CUDA out of memory")
    /\ oom_call.log.content = Without(oom_prev.log.content, "CUDA out of memory")
    /\ ~HasSignature(oom_call.log.content)

\* C15, as claimed: the detector returns true exactly when the text contains
\* one of the signatures; a text with "CUDA out of memory" gives true and the
\* same text without it, no other signature being present, gives false; a log
\* that cannot be read gives false and no error.
C15_DetectsSignatures ==
    /\ oom_call.outcome # "raise"
    /\ oom_call.outcome = "return" =>
          /\ oom_call.log.kind = "text" =>
                (oom_call.ret <=> HasSignature(oom_call.log.content))
          /\ oom_call.log.kind # "text" => ~oom_call.ret
    /\ RemovalScenario => (oom_prev.ret /\ ~oom_call.ret)

(***************************************************************************)
(* The statistical summary (statistical_summary.csv) and its two readers:  *)
(* analyze_statistical_data.py and track_progress.py.                      *)
(*                                                                          *)
(* A row is [stage, input_file, threads, status, duration_sec], with the   *)
(* duration in whole seconds.  A statistic of the aggregation is a float:  *)
(* NaN, or Some(v) with v the value in hundredths, truncated; cv_percent is *)
(* in whole percent, truncated.  The bounds of the 95% interval are in    *)
(* hundredths, rounded to the nearest.                                      *)
(***************************************************************************)
\* the most rows the summary has
MaxRows == 3

NaN == <<>>

\* The configurations that were run and the durations their successful
\* runs took; every configuration also has a failed run (after 99 s), and
\* the first one a run that timed out.
SuccessDurations ==
    ( <<"msa", "promo.json", 4>>     :> { 5, 10, 20, 30, 90 } ) @@
    ( <<"msa", "promo.json", 8>>     :> { 0, 20, 30 } ) @@
    ( <<"inference", "2PV7.json", 4>> :> { 10, 90 } )

SummaryKeys == DOMAIN SuccessDurations

TimedOutKeys == { <<"msa", "promo.json", 4>> }

SummaryRow(k, status, d) ==
    [stage |-> k[1], input_file |-> k[2], threads |-> k[3], status |-> status,
     duration_sec |-> d]

SummaryRows ==
    UNION { { SummaryRow(k, "SUCCESS", d) : d \in SuccessDurations[k] } : k \in SummaryKeys }
    \cup { SummaryRow(k, "FAILED", 99) : k \in SummaryKeys }
    \cup { SummaryRow(k, "TIMEOUT", 3600) : k \in TimedOutKeys }

RowKey(row) == <<row.stage, row.input_file, row.threads>>

\* ---- arithmetic on a non-empty sequence of durations
RECURSIVE SumOf(_)
SumOf(xs) == IF xs = <<>> THEN 0 ELSE Head(xs) + SumOf(Tail(xs))

RECURSIVE SumOfSquares(_)
SumOfSquares(xs) == IF xs = <<>> THEN 0 ELSE Head(xs) * Head(xs) + SumOfSquares(Tail(xs))

MinOf(xs) == CHOOSE x \in { xs[i] : i \in 1..Len(xs) } : \A j \in 1..Len(xs) : x <= xs[j]

MaxOf(xs) == CHOOSE x \in { xs[i] : i \in 1..Len(xs) } : \A j \in 1..Len(xs) : x >= xs[j]

\* sorted(xs)
RECURSIVE InsertSorted(_, _)
InsertSorted(x, sorted) ==
    IF sorted = <<>> THEN <<x>>
    ELSE IF x <= Head(sorted) THEN <<x>> \o sorted
    ELSE <<Head(sorted)>> \o InsertSorted(x, Tail(sorted))

RECURSIVE Sorted(_)
Sorted(xs) == IF xs = <<>> THEN <<>> ELSE InsertSorted(Head(xs), Sorted(Tail(xs)))

\* The integer square root, by bisection: the r in lo..hi with
\* r * r <= n < (r + 1) * (r + 1).
RECURSIVE SqrtBetween(_, _, _)
SqrtBetween(n, lo, hi) ==
    IF lo >= hi THEN lo
    ELSE LET mid == (lo + hi + 1) \div 2 IN
         IF mid * mid <= n THEN SqrtBetween(n, mid, hi) ELSE SqrtBetween(n, lo, mid - 1)

Isqrt(n) == SqrtBetween(n, 0, 46340)

\* mean, median and sample standard deviation (divisor n - 1, n > 1) in
\* hundredths; the coefficient of variation, 100 * stdev / mean, in percent.
MeanOf(xs) == (100 * SumOf(xs)) \div Len(xs)

MedianOf(xs) ==
    LET sorted == Sorted(xs)
        n == Len(xs) IN
    IF n % 2 = 1 THEN 100 * sorted[(n + 1) \div 2]
    ELSE 50 * (sorted[n \div 2] + sorted[n \div 2 + 1])

SquaredDeviations(xs) == Len(xs) * SumOfSquares(xs) - SumOf(xs) * SumOf(xs)

\* The mutant divides by n.
StdPopulationMutant(xs) == Isqrt((10000 * SquaredDeviations(xs)) \div (Len(xs) * Len(xs)))

StdOf(xs) == Isqrt((10000 * SquaredDeviations(xs)) \div (Len(xs) * (Len(xs) - 1)))

CvPercentOf(xs) ==
    Isqrt((10000 * SquaredDeviations(xs) * Len(xs))
             \div ((Len(xs) - 1) * SumOf(xs) * SumOf(xs)))

\* The bounds of the 95% interval, lines 48-49: mean -+ 1.96 * (std /
\* sqrt(count)), in hundredths, rounded to the nearest.  With n the count,
\* S the sum and D the squared deviations, 1.96 * std / sqrt(n) in hundredths
\* is 392 * sqrt((n - 1) * D) / (2 * n * (n - 1)); LeastStep finds the whole
\* part of 392 * sqrt(y) from the integer square root r of y, as the least
\* j in lo..hi with (392 * r + j)^2 >= 392^2 * r^2 + bound.
RECURSIVE LeastStep(_, _, _, _)
LeastStep(r, bound, lo, hi) ==
    IF lo >= hi THEN lo
    ELSE LET mid == (lo + hi) \div 2 IN
         IF 784 * r * mid + mid * mid >= bound
         THEN LeastStep(r, bound, lo, mid) ELSE LeastStep(r, bound, mid + 1, hi)

\* the lower bound ends at the ceiling of 392 * sqrt(y), the upper one at
\* its floor
CiLowerOf(xs) ==
    LET n == Len(xs)
        y == (n - 1) * SquaredDeviations(xs)
        r == Isqrt(y)
        ceiling == 392 * r + LeastStep(r, 153664 * (y - r * r), 0, 392) IN
    (200 * SumOf(xs) * (n - 1) + n * (n - 1) - ceiling) \div (2 * n * (n - 1))

CiUpperOf(xs) ==
    LET n == Len(xs)
        y == (n - 1) * SquaredDeviations(xs)
        r == Isqrt(y)
        floor == 392 * r + LeastStep(r, 153664 * (y - r * r) + 1, 0, 392) - 1 IN
    (200 * SumOf(xs) * (n - 1) + n * (n - 1) + floor) \div (2 * n * (n - 1))

\* The durations of the rows of a configuration, in the order of the rows.
RECURSIVE DurationsOf(_, _)
DurationsOf(rows, key) ==
    IF rows = <<>> THEN <<>>
    ELSE IF RowKey(Head(rows)) = key
         THEN <<Head(rows).duration_sec>> \o DurationsOf(Tail(rows), key)
         ELSE DurationsOf(Tail(rows), key)

\* The configurations of the rows, each once, in the order of first appearance.
RECURSIVE KeysInOrder(_, _)
KeysInOrder(rows, seen) ==
    IF rows = <<>> THEN <<>>
    ELSE IF RowKey(Head(rows)) \in seen THEN KeysInOrder(Tail(rows), seen)
    ELSE <<RowKey(Head(rows))>> \o KeysInOrder(Tail(rows), seen \cup {RowKey(Head(rows))})

(***************************************************************************)
(* analyze_statistical_data.py                                              *)
(***************************************************************************)
\* df[df['status'] == 'SUCCESS'], line 28.  The mutant keeps every row.
SuccessDfKeepsAllMutant(df) == df

success_df(df) == SelectSeq(df, LAMBDA row : row.status = "SUCCESS")

\* groupby sorts the groups by their keys (sort=True is the default): stage
\* and input_file as strings, threads as a number.
KeyBefore(a, b) ==
    LET StageRank == ( "inference" :> 1 ) @@ ( "msa" :> 2 )
        InputRank == ( "2PV7.json" :> 1 ) @@ ( "promo.json" :> 2 ) IN
    \/ StageRank[a[1]] < StageRank[b[1]]
    \/ a[1] = b[1] /\ InputRank[a[2]] < InputRank[b[2]]
    \/ a[1] = b[1] /\ a[2] = b[2] /\ a[3] < b[3]

RECURSIVE SortedKeys(_)
SortedKeys(keys) ==
    IF keys = {} THEN <<>>
    ELSE LET first == CHOOSE k \in keys : \A other \in keys \ {k} : KeyBefore(k, other)
         IN  <<first>> \o SortedKeys(keys \ {first})

\* One row of the aggregation, lines 35-52, for a group's durations xs:
\* pandas' std is the sample standard deviation, NaN for a single value;
\* NaN goes through the division of line 45 and the interval of lines
\* 48-49; 0 / 0 is NaN.
GroupRow(key, xs) ==
    LET std == IF Len(xs) = 1 THEN NaN ELSE Some(StdOf(xs)) IN
    [stage |-> key[1], input_file |-> key[2], threads |-> key[3],
     count |-> Len(xs),
     mean |-> Some(MeanOf(xs)),
     std |-> std,
     min |-> Some(100 * MinOf(xs)),
     max |-> Some(100 * MaxOf(xs)),
     median |-> Some(MedianOf(xs)),
     cv_percent |-> IF std = NaN \/ SumOf(xs) = 0 THEN NaN ELSE Some(CvPercentOf(xs)),
     range_sec |-> Some(100 * MaxOf(xs) - 100 * MinOf(xs)),
     ci_95_lower |-> IF std = NaN THEN NaN ELSE Some(CiLowerOf(xs)),
     ci_95_upper |-> IF std = NaN THEN NaN ELSE Some(CiUpperOf(xs))]

\* calculate_statistics(df), lines 25-54: None when no run succeeded.
analyze_calculate_statistics(df) ==
    LET success == success_df(df)
        keys == SortedKeys({ RowKey(success[i]) : i \in 1..Len(success) }) IN
    IF Len(success) = 0 THEN None
    ELSE Some([g \in 1..Len(keys) |-> GroupRow(keys[g], DurationsOf(success, keys[g]))])

(***************************************************************************)
(* track_progress.py                                                        *)
(***************************************************************************)
\* parse_csv_results, lines 77-90: a dict, in the order of insertion, from
\* the configuration (the text "<stage>_<input_file>_<threads>t", kept as
\* the triple) to the durations of its SUCCESS rows; a configuration gets
\* its entry from its first row, whatever that row's status.
parse_csv_results(rows) ==
    LET keys == KeysInOrder(rows, {}) IN
    [c \in 1..Len(keys) |->
        [config |-> keys[c],
         timings |-> DurationsOf(SelectSeq(rows, LAMBDA row : row.status = "SUCCESS"),
                                 keys[c])]]

\* calculate_statistics(timings), lines 92-106: {} (None here) for no
\* timings.  Line 105 divides by the mean whenever there are two timings or
\* more: ZeroDivisionError when the mean is 0.
TrackStatisticsRaise(timings) == Len(timings) > 1 /\ SumOf(timings) = 0

track_calculate_statistics(timings) ==
    IF timings = <<>> THEN None
    ELSE Some([count |-> Len(timings),
               mean |-> MeanOf(timings),
               median |-> MedianOf(timings),
               stdev |-> IF Len(timings) > 1 THEN StdOf(timings) ELSE 0,
               min |-> 100 * MinOf(timings),
               max |-> 100 * MaxOf(timings),
               cv_percent |-> IF Len(timings) > 1 THEN CvPercentOf(timings) ELSE 0])

\* print_status, lines 163-170: the icon chosen by the if chain and the label
\* chosen by the conditional expression.  The mean is compared exactly.
StatusIcon(timings) ==
    IF SumOf(timings) > 60 * Len(timings) THEN "real computation icon"
    ELSE IF SumOf(timings) > 10 * Len(timings) THEN "partial icon"
    ELSE "validation icon"

StatusLabel(timings) ==
    IF SumOf(timings) > 60 * Len(timings) THEN "Real computation"
    ELSE IF SumOf(timings) < 10 * Len(timings) THEN "Validation only"
    ELSE "Partial run"

\* print_status, lines 154-170, on the parsed results from entry c on: a
\* line per configuration that has statistics; an exception of
\* calculate_statistics leaves print_status with the lines printed so far.
RECURSIVE PrintStatusFrom(_, _, _)
PrintStatusFrom(results, c, lines) ==
    IF c > Len(results) THEN [outcome |-> "return", error |-> "", lines |-> lines]
    ELSE IF TrackStatisticsRaise(results[c].timings)
    THEN [outcome |-> "raise", error |-> "ZeroDivisionError", lines |-> lines]
    ELSE IF track_calculate_statistics(results[c].timings) = None
    THEN PrintStatusFrom(results, c + 1, lines)
    ELSE PrintStatusFrom(results, c + 1,
             Append(lines, [config |-> results[c].config,
                            stats |-> track_calculate_statistics(results[c].timings)[1],
                            icon |-> StatusIcon(results[c].timings),
                            label |-> StatusLabel(results[c].timings)]))

\* print_status, lines 137-140: parse_log_file (lines 31-32) answers a log
\* that does not exist with a dictionary that has no 'stage' entry, and the
\* lookup of line 138 raises KeyError before the summary is read.
print_status(log_exists, rows) ==
    IF ~log_exists THEN [outcome |-> "raise", error |-> "KeyError", lines |-> <<>>]
    ELSE PrintStatusFrom(parse_csv_results(rows), 1, <<>>)

(***************************************************************************)
(* The summary is written row by row, closed, and then read by the two     *)
(* programs, each once.                                                     *)
(***************************************************************************)
InitSummary ==
    /\ ManagerAtRest
    /\ RunnerAtRest
    /\ ThreadsAtRest
    /\ FunctionsAtRest
    /\ ReadersAtRest
    /\ csv_rows = <<>>
    /\ agg_pc = "writing"
    /\ stats = NoCall
    /\ csv_results = NoCall
    /\ status_lines = NoCall

\* a finished run is recorded
AppendRow ==
    /\ agg_pc = "writing"
    /\ Len(csv_rows) < MaxRows
    /\ \E row \in SummaryRows : csv_rows' = Append(csv_rows, row)
    /\ UNCHANGED <<agg_pc, stats, csv_results, status_lines, mgr_vars, run_vars, rd_vars,
                   thr_vars, fun_vars>>

CloseSummary ==
    /\ agg_pc = "writing"
    /\ agg_pc' = "closed"
    /\ UNCHANGED <<csv_rows, stats, csv_results, status_lines, mgr_vars, run_vars, rd_vars,
                   thr_vars, fun_vars>>

\* analyze_statistical_data.main, lines 238-239
AnalyzeMain ==
    /\ agg_pc = "closed"
    /\ stats = NoCall
    /\ stats' = [outcome |-> "return", value |-> analyze_calculate_statistics(csv_rows)]
    /\ UNCHANGED <<csv_rows, agg_pc, csv_results, status_lines, mgr_vars, run_vars, rd_vars,
                   thr_vars, fun_vars>>

\* track_progress.print_status, lines 117-172, with the run's log
\* statistical_run_full.log in the working directory or not
TrackPrintStatus ==
    /\ agg_pc = "closed"
    /\ status_lines = NoCall
    /\ \E log_exists \in BOOLEAN :
          /\ csv_results' = IF log_exists
                            THEN [outcome |-> "return", value |-> parse_csv_results(csv_rows)]
                            ELSE csv_results
          /\ status_lines' = print_status(log_exists, csv_rows)
    /\ UNCHANGED <<csv_rows, agg_pc, stats, mgr_vars, run_vars, rd_vars, thr_vars, fun_vars>>

NextSummary ==
    \/ AppendRow
    \/ CloseSummary
    \/ AnalyzeMain
    \/ TrackPrintStatus

SpecSummary == InitSummary /\ [][NextSummary]_vars

(***************************************************************************)
(* Properties of the aggregation.                                           *)
(***************************************************************************)
Analysed == stats.outcome = "return"

Tracked == status_lines.outcome = "return"

\* The progress report stopped in the statistics of a group.
AggregationRaises ==
    status_lines.outcome = "raise" /\ status_lines.error = "ZeroDivisionError"

\* The durations of a configuration's SUCCESS rows in the summary, and
\* whether the configuration has a row at all.
SuccessTimings(key) ==
    DurationsOf(SelectSeq(csv_rows, LAMBDA row : row.status = "SUCCESS"), key)

HasRows(key) == \E i \in 1..Len(csv_rows) : RowKey(csv_rows[i]) = key

HasOtherRows(key) ==
    \E i \in 1..Len(csv_rows) : RowKey(csv_rows[i]) = key /\ csv_rows[i].status # "SUCCESS"

\* The rows of the aggregation, and the lines of the progress report, that
\* are about a configuration.
StatsRows == IF stats.value = None THEN <<>> ELSE stats.value[1]

RowsFor(key) ==
    { StatsRows[g] : g \in { i \in 1..Len(StatsRows) :
        <<StatsRows[i].stage, StatsRows[i].input_file, StatsRows[i].threads>> = key } }

LinesFor(key) ==
    { status_lines.lines[c] : c \in { i \in 1..Len(status_lines.lines) :
        status_lines.lines[i].config = key } }

\* C16: each group's statistics are those of its SUCCESS rows alone: the
\* aggregation of the summary is the aggregation of the summary without its
\* FAILED and TIMEOUT rows, group by group, in both readers.
C16_OnlySuccessCounts ==
    /\ Analysed =>
          \A key \in SummaryKeys :
             RowsFor(key) = IF SuccessTimings(key) = <<>> THEN {}
                            ELSE { GroupRow(key, SuccessTimings(key)) }
    /\ Tracked =>
          \A key \in SummaryKeys :
             { l.stats : l \in LinesFor(key) } =
                IF SuccessTimings(key) = <<>> THEN {}
                ELSE { track_calculate_statistics(SuccessTimings(key))[1] }

\* C16's case: a group with two SUCCESS rows and a row that is not, read by
\* both programs.
C16_Witness ==
    /\ Analysed
    /\ Tracked
    /\ \E key \in SummaryKeys :
          /\ Len(SuccessTimings(key)) = 2
          /\ HasOtherRows(key)
          /\ \E r \in RowsFor(key) : r.count = 2

\* C17, as claimed: a group that has rows but no SUCCESS row is in the
\* output, with its count 0 and its derived fields undefined, and nothing
\* raises.
C17_GroupWithoutSuccessReported ==
    \A key \in SummaryKeys :
       (HasRows(key) /\ SuccessTimings(key) = <<>>) =>
          /\ stats.outcome # "raise"
          /\ ~AggregationRaises
          /\ Analysed =>
                \E r \in RowsFor(key) :
                   r.count = 0 /\ r.mean = NaN /\ r.std = NaN /\ r.cv_percent = NaN
          /\ Tracked => LinesFor(key) # {}

\* The timings are n > 0 times the same positive duration.
AllTheSame(xs) == xs # <<>> /\ xs[1] > 0 /\ \A i \in 1..Len(xs) : xs[i] = xs[1]

\* C18, as claimed: a group of N >= 1 SUCCESS rows of one positive duration
\* has count N, stdev 0, cv_percent 0 and range 0, in both readers.
C18_IdenticalDurations ==
    \A key \in SummaryKeys :
       AllTheSame(SuccessTimings(key)) =>
          /\ Analysed =>
                \E r \in RowsFor(key) :
                   /\ r.count = Len(SuccessTimings(key))
                   /\ r.std = Some(0)
                   /\ r.cv_percent = Some(0)
                   /\ r.range_sec = Some(0)
          /\ Tracked =>
                \E l \in LinesFor(key) :
                   /\ l.stats.count = Len(SuccessTimings(key))
                   /\ l.stats.stdev = 0
                   /\ l.stats.cv_percent = 0
                   /\ l.stats.max - l.stats.min = 0

\* C19: a group whose SUCCESS durations are 10, 20 and 30 has mean 20,
\* stdev 10, cv_percent 50, median 20 and range 20.
C19_TenTwentyThirty ==
    \A key \in SummaryKeys :
       Sorted(SuccessTimings(key)) = <<10, 20, 30>> =>
          /\ Analysed =>
                \E r \in RowsFor(key) :
                   /\ r.mean = Some(2000)
                   /\ r.std = Some(1000)
                   /\ r.cv_percent = Some(50)
                   /\ r.median = Some(2000)
                   /\ r.range_sec = Some(2000)
          /\ Tracked =>
                \E l \in LinesFor(key) :
                   /\ l.stats.mean = 2000
                   /\ l.stats.stdev = 1000
                   /\ l.stats.cv_percent = 50
                   /\ l.stats.median = 2000
                   /\ l.stats.max - l.stats.min = 2000

\* C19's case: the three durations, recorded out of order, read by both.
C19_Witness ==
    /\ Analysed
    /\ Tracked
    /\ SuccessTimings(<<"msa", "promo.json", 4>>) = <<30, 10, 20>>
    /\ \E r \in RowsFor(<<"msa", "promo.json", 4>>) : r.count = 3

\* The class the stated boundaries give a group of timings.
ClaimedClass(xs) ==
    IF SumOf(xs) > 60 * Len(xs) THEN "real"
    ELSE IF SumOf(xs) > 10 * Len(xs) THEN "partial"
    ELSE "validation"

\* C20, as claimed: the report classifies a group as real computation when
\* mean > 60, as partial when 10 < mean <= 60, and as validation-only when
\* mean <= 10.
C20_ClassBoundaries ==
    Tracked =>
       \A c \in 1..Len(status_lines.lines) :
          LET line == status_lines.lines[c]
              class == ClaimedClass(SuccessTimings(line.config)) IN
          /\ line.icon = CASE class = "real" -> "real computation icon"
                           [] class = "partial" -> "partial icon"
                           [] OTHER -> "validation icon"
          /\ line.label = CASE class = "real" -> "Real computation"
                            [] class = "partial" -> "Partial run"
                            [] OTHER -> "Validation only"

\* The row of the summary in which a configuration first appears.
FirstRowOf(key) ==
    CHOOSE i \in 1..Len(csv_rows) :
       RowKey(csv_rows[i]) = key /\ \A j \in 1..(i - 1) : RowKey(csv_rows[j]) # key

\* C24, as claimed: both readers list the groups in the order in which the
\* groups first appear in the summary.
C24_FirstAppearanceOrder ==
    /\ Analysed =>
          \A g, h \in 1..Len(StatsRows) :
             g < h =>
                FirstRowOf(<<StatsRows[g].stage, StatsRows[g].input_file,
                             StatsRows[g].threads>>)
                   < FirstRowOf(<<StatsRows[h].stage, StatsRows[h].input_file,
                                  StatsRows[h].threads>>)
    /\ status_lines.outcome \in {"return", "raise"} =>
          \A c, d \in 1..Len(status_lines.lines) :
             c < d =>
                FirstRowOf(status_lines.lines[c].config)
                   < FirstRowOf(status_lines.lines[d].config)

\* The group's SUCCESS durations have mean 0.
ZeroMean(key) == SuccessTimings(key) # <<>> /\ SumOf(SuccessTimings(key)) = 0

\* C25, as claimed: a group of SUCCESS rows whose mean is 0 is aggregated
\* without an exception and its cv_percent is undefined (not a number), in
\* both readers.
C25_ZeroMeanCvUndefined ==
    \A key \in SummaryKeys :
       ZeroMean(key) =>
          /\ stats.outcome # "raise"
          /\ ~AggregationRaises
          /\ Analysed => \E r \in RowsFor(key) : r.cv_percent = NaN
          /\ Tracked => \E l \in LinesFor(key) : l.stats.cv_percent \notin Int

\* The class an icon and a label of the report stand for.
IconClass(icon) ==
    CASE icon = "real computation icon" -> "real"
      [] icon = "partial icon" -> "partial"
      [] icon = "validation icon" -> "validation"

LabelClass(label) ==
    CASE label = "Real computation" -> "real"
      [] label = "Partial run" -> "partial"
      [] label = "Validation only" -> "validation"

\* C27, as claimed: on every line of the report the icon and the label
\* stand for the same class.
C27_IconMatchesLabel ==
    status_lines.outcome \in {"return", "raise"} =>
       \A c \in 1..Len(status_lines.lines) :
          IconClass(status_lines.lines[c].icon) = LabelClass(status_lines.lines[c].label)

(***************************************************************************)
(* A run-record CSV file and its readers.  A line is the list of its       *)
(* comma-separated fields, every field a text.  The runner reads           *)
(* results/master_results.csv, the two statistics programs read            *)
(* statistical_summary.csv; the three read the lines the same way, so one  *)
(* file stands for both.                                                    *)
(***************************************************************************)
\* the most lines the file has
MaxCsvLines == 4

CsvHeader == <<"stage", "input_file", "threads", "status", "duration_sec">>

CsvComment == <<"# AFSysBench statistical run">>

CsvRecords ==
    { <<"msa", "promo.json", "4", "SUCCESS", "10">>,
      <<"msa", "promo.json", "4", "FAILED", "99">>,
      <<"inference", "2PV7.json", "4", "SUCCESS", "61">> }

\* line.startswith('#')
StartsWithHash(line) == line # <<>> /\ line[1] = CsvComment[1]

\* float(text) on the durations that occur: None stands for ValueError.
FloatOfText(text) ==
    CASE text = "10" -> Some(10)
      [] text = "61" -> Some(61)
      [] text = "99" -> Some(99)
      [] OTHER -> None

\* csv.DictReader: the first line gives the field names, every later line
\* a dict from the field names to its fields; a field the line does not
\* have is None (restval, written here as the text None, which is what the
\* f-string of track_progress line 82 makes of it), and the fields a line
\* has beyond the field names are a list under the key None (restkey).
FieldIndex(fieldnames, name) == CHOOSE i \in 1..Len(fieldnames) : fieldnames[i] = name

DictRow(fieldnames, fields) ==
    LET names == { fieldnames[i] : i \in 1..Len(fieldnames) }
        restval == "None"
        restkey == "None"
        keys == IF Len(fields) > Len(fieldnames) THEN names \cup {restkey} ELSE names IN
    [name \in keys |->
        IF name \notin names THEN SubSeq(fields, Len(fieldnames) + 1, Len(fields))
        ELSE IF FieldIndex(fieldnames, name) <= Len(fields)
        THEN fields[FieldIndex(fieldnames, name)] ELSE restval]

DictReader(lines) ==
    IF lines = <<>> THEN <<>>
    ELSE [i \in 1..(Len(lines) - 1) |-> DictRow(lines[1], lines[i + 1])]

\* AFBenchRunner.get_master_results, lines 433-443, on a file that exists
get_master_results(lines) ==
    LET kept == SelectSeq(lines, LAMBDA line : ~StartsWithHash(line)) IN
    IF kept = <<>> THEN <<>> ELSE DictReader(kept)

\* analyze_statistical_data.load_data, lines 17-23: pd.read_csv takes the
\* first line for the column names and every other line for a record.  It
\* settles the number of fields on the first two lines, and a later line
\* with more fields is a ParserError; a file without a line is an
\* EmptyDataError.  Either is caught at line 21 and the program exits.
load_data(lines) ==
    LET expected == IF Len(lines) > 1 /\ Len(lines[2]) > Len(lines[1])
                    THEN Len(lines[2]) ELSE Len(lines[1])
        parser_error == \E i \in 3..Len(lines) : Len(lines[i]) > expected IN
    IF lines = <<>> \/ parser_error
    THEN [outcome |-> "exit", columns |-> <<>>, records |-> <<>>]
    ELSE [outcome |-> "return", columns |-> lines[1], records |-> Tail(lines)]

\* track_progress.parse_csv_results, lines 77-90, from row i on: the dict
\* as the sequence of its entries in the order of insertion.  A KeyError or
\* ValueError ends the reading (lines 87-88) and what was read is returned.
WithConfig(results, key) ==
    IF \A c \in 1..Len(results) : results[c].config # key
    THEN Append(results, [config |-> key, timings |-> <<>>])
    ELSE results

WithTiming(results, key, duration) ==
    [c \in 1..Len(results) |->
        IF results[c].config = key
        THEN [results[c] EXCEPT !.timings = Append(@, duration)] ELSE results[c]]

RECURSIVE ParseRowsFrom(_, _, _)
ParseRowsFrom(rows, i, results) ==
    IF i > Len(rows) THEN results
    ELSE LET row == rows[i] IN
         IF ~({"stage", "input_file", "threads"} \subseteq DOMAIN row) THEN results
         ELSE LET key == <<row["stage"], row["input_file"], row["threads"]>>
                  entered == WithConfig(results, key) IN
              IF "status" \notin DOMAIN row THEN entered
              ELSE IF row["status"] # "SUCCESS" THEN ParseRowsFrom(rows, i + 1, entered)
              ELSE IF "duration_sec" \notin DOMAIN row THEN entered
              ELSE IF FloatOfText(row["duration_sec"]) = None THEN entered
              ELSE ParseRowsFrom(rows, i + 1,
                       WithTiming(entered, key, FloatOfText(row["duration_sec"])[1]))

parse_csv_file(lines) == ParseRowsFrom(DictReader(lines), 1, <<>>)

\* The file is written line by line: the header once, records after it,
\* comment lines anywhere.
InitReaders ==
    /\ ManagerAtRest
    /\ RunnerAtRest
    /\ ThreadsAtRest
    /\ FunctionsAtRest
    /\ SummaryAtRest
    /\ csv_lines = <<>>
    /\ rd_pc = "writing"
    /\ master_results = NoCall
    /\ loaded_df = NoCall
    /\ parsed_results = NoCall

HasHeader(lines) == \E i \in 1..Len(lines) : lines[i] = CsvHeader

WriteCsvLine ==
    /\ rd_pc = "writing"
    /\ Len(csv_lines) < MaxCsvLines
    /\ \E line \in {CsvHeader, CsvComment} \cup CsvRecords :
          /\ line = CsvHeader => ~HasHeader(csv_lines)
          /\ line \in CsvRecords => HasHeader(csv_lines)
          /\ csv_lines' = Append(csv_lines, line)
    /\ UNCHANGED <<rd_pc, master_results, loaded_df, parsed_results, mgr_vars, run_vars,
                   thr_vars, fun_vars, agg_vars>>

CloseCsv ==
    /\ rd_pc = "writing"
    /\ rd_pc' = "closed"
    /\ UNCHANGED <<csv_lines, master_results, loaded_df, parsed_results, mgr_vars,
                   run_vars, thr_vars, fun_vars, agg_vars>>

CallGetMasterResults ==
    /\ rd_pc = "closed"
    /\ master_results = NoCall
    /\ master_results' = [outcome |-> "return", value |-> get_master_results(csv_lines)]
    /\ UNCHANGED <<csv_lines, rd_pc, loaded_df, parsed_results, mgr_vars, run_vars,
                   thr_vars, fun_vars, agg_vars>>

CallLoadData ==
    /\ rd_pc = "closed"
    /\ loaded_df = NoCall
    /\ loaded_df' = load_data(csv_lines)
    /\ UNCHANGED <<csv_lines, rd_pc, master_results, parsed_results, mgr_vars, run_vars,
                   thr_vars, fun_vars, agg_vars>>

CallParseCsvResults ==
    /\ rd_pc = "closed"
    /\ parsed_results = NoCall
    /\ parsed_results' = [outcome |-> "return", value |-> parse_csv_file(csv_lines)]
    /\ UNCHANGED <<csv_lines, rd_pc, master_results, loaded_df, mgr_vars, run_vars,
                   thr_vars, fun_vars, agg_vars>>

NextReaders ==
    \/ WriteCsvLine
    \/ CloseCsv
    \/ CallGetMasterResults
    \/ CallLoadData
    \/ CallParseCsvResults

SpecReaders == InitReaders /\ [][NextReaders]_vars

\* The file without its lines that begin with '#'.
Uncommented(lines) == SelectSeq(lines, LAMBDA line : ~StartsWithHash(line))

\* C26, as claimed: each of the three readers skips the lines that begin
\* with '#': what it reads from the file is what it reads from the file
\* without those lines, so no such line is the header or a record.
C26_CommentLinesSkipped ==
    /\ master_results.outcome = "return" =>
          master_results.value = get_master_results(Uncommented(csv_lines))
    /\ loaded_df.outcome # "none" => loaded_df = load_data(Uncommented(csv_lines))
    /\ parsed_results.outcome = "return" =>
          parsed_results.value = parse_csv_file(Uncommented(csv_lines))

====
